---- MODULE Spec2Model ----
(***************************************************************************)
(* Update ingestion and dispatch of TgBee (src/TgBee/bot.py).              *)
(*                                                                         *)
(* The polling task (Client.start_polling), the update queue, the worker   *)
(* tasks (Client._update_worker), the matching and fan-out of one update   *)
(* (Client.process_update, Handler.check, Handler.handle) and the          *)
(* cancellation path (Client.stop_workers) are modelled as asyncio tasks:  *)
(* a task changes state between two of its suspension points, and the      *)
(* statements the claims are about (put / cursor assignment) are kept as   *)
(* separate steps.                                                         *)
(*                                                                         *)
(* The outbound transport (Client._rate_limited_api_call, and the calls    *)
(* that go to Methods directly), the webhook request handler               *)
(* (Client._handle_webhook_request) and the filter combinators             *)
(* (filters.Filter) are modelled next to them.                             *)
(*                                                                         *)
(* The remote end is an input.  A getUpdates answer is any batch the       *)
(* remote API's contract allows: integer identifiers strictly ascending    *)
(* and not below the offset of the request, with malformed items anywhere  *)
(* in the batch.                                                           *)
(***************************************************************************)
EXTENDS Integers, Sequences, FiniteSets, TLC

\* ------------------------------------------------------------------ bounds

\* Largest update_id the remote end hands out.
MaxId == 7
\* Items in one getUpdates answer (the `limit` of the request, scaled down).
MaxBatch == 2
\* Malformed items the remote end sends over a whole run.
MaxMalformed == 1
\* getUpdates calls the remote end fails over a run of the data-path
\* specification (the backoff specification does not bound them).
MaxFailures == 2
\* Worker tasks (worker_count, scaled down).
NumWorkers == 2
\* Updates handed to _queue_update over a run of the dispatch specification.
MaxUpdates == 2
\* Tasks that make an outbound call over a run of the transport specification.
NumCallers == 3
\* Permits of the rate limiter (asyncio.Semaphore(30), bot.py:45, scaled down).
Permits == 2
\* The clock of the transport specification stops at MaxTime steps.
MaxTime == 4
\* Requests the webhook endpoint receives over a run.
MaxRequests == 2
\* Updates of the sample a composed filter is applied to.
NumSamples == 2
\* The number of handlers registered while the client runs.
MaxHandlers == 2
\* Calls of start_workers, in the life-cycle specification.
MaxStarts == 2
\* Constructions of Client, the one of the module included.
MaxConstructions == 3

\* --------------------------------------------------------- program constants

\* bot.py:171
max_retries == 5
\* Delays are counted in 1/Scale seconds, which keeps every product of the
\* backoff factor 1.5 (bot.py:173) an integer.
Scale == 2 ^ 10
\* bot.py:172 and bot.py:194
InitialRetryDelay == 5 * Scale
\* bot.py:206 and bot.py:211
MaxRetryDelay == 60 * Scale
\* bot.py:44: the minimum interval between two requests, 0.05 s, counted in
\* steps of the clock (one step is 25 ms).
request_interval == 2
\* bot.py:238: the path setup_webhook registers.
webhook_path == "/webhook"

VARIABLES
    \* start_polling's locals
    pollPc,        \* where the polling task stands
    offset,        \* the polling cursor
    attempt,       \* the index of the retry loop
    retry_delay,   \* the base delay of the backoff
    reqOffset,     \* the offset carried by the request in flight
    batch,         \* the answer being iterated over
    idx,           \* the position in batch
    slept,         \* the delay of the sleep in progress (or of the last one)
    \* the client
    update_queue,  \* self.update_queue
    workers,       \* self.worker_tasks: the state of each worker task
    handlers,      \* self.handlers
    \* history
    batches,       \* the non-empty answers received: [offset, items]
    dispatched,    \* what became of each update a worker took
    errlog,        \* what the logger was given
    queued,        \* number of updates handed to _queue_update
    failures,      \* number of getUpdates calls the remote end has failed
    cancelled,     \* the polling task has taken a cancellation
    \* the outbound transport
    now,               \* time.time(), in steps of the clock
    last_request_time, \* self.last_request_time
    rate_limiter,      \* self.rate_limiter: the free permits
    calls,             \* the state of each task that makes an outbound call
    \* the webhook endpoint
    requests,      \* the requests received, each with its answer
    \* the filter combinators
    sample,        \* two filters and the results of their composition
    \* the configuration
    token,         \* self.token
    base_url,      \* Methods.base_url
    \* the life cycle of the workers: followed where start_workers and
    \* stop_workers are called more than once; elsewhere the tasks of
    \* WorkerIds in `workers` are the ones start_polling started
    worker_count,  \* self.worker_count
    worker_tasks,  \* self.worker_tasks: the tasks the client holds
    \* the constructions of Client
    initialized,   \* Client._instance.initialized
    constructed    \* history: each call Client(token, plugins_dir) with the
                   \* instance it returned

vars == << pollPc, offset, attempt, retry_delay, reqOffset, batch, idx, slept,
           update_queue, workers, handlers, batches, dispatched, errlog,
           queued, failures, cancelled, now, last_request_time, rate_limiter,
           calls, requests, sample, token, base_url, worker_count,
           worker_tasks, initialized, constructed >>

pollVars == << pollPc, offset, attempt, retry_delay, reqOffset, batch, idx,
               slept, batches >>

limVars == << now, last_request_time, rate_limiter, calls >>

cfgVars == << token, base_url, worker_count, worker_tasks, initialized,
             constructed >>

\* What ingestion and dispatch leave alone.
extVars == << limVars, requests, sample, cfgVars >>

\* --------------------------------------------------------------- the client

\* `bot = Client()` at the end of the module: the first construction, which
\* the import of the package performs. The one instance is numbered 1.
ModuleImport == [token |-> "", plugins_dir |-> FALSE, instance |-> 1]

\* ----------------------------------------------------------------- payloads

\* A payload as it arrives: form says what kind of JSON value it is,
\*   "ok"      a dict whose update_id is an integer
\*   "badid"   a dict whose update_id is no number (null, "abc")
\*   "noid"    a dict without update_id
\*   "notdict" not a dict (a string, a list, null)
\* kind is the key populated in it ("none": no key Update knows), body says
\* whether the value under that key has the fields its record requires, and
\* attr is a content bit predicates test.
Forms == {"ok", "badid", "noid", "notdict"}
Kinds == {"message", "callback_query"}
NoId == 0 - 1

Payload(f, n, k, b, a) ==
    [form |-> f, update_id |-> n, kind |-> k, body |-> b, attr |-> a]

OkItem(n) == Payload("ok", n, "message", "good", FALSE)
BadItem(f) == Payload(f, NoId, "message", "good", FALSE)

\* isinstance(update, dict)
IsDict(u) == u.form # "notdict"
\* 'update_id' in update
HasUpdateId(u) == u.form \in {"ok", "badid"}
\* int(update['update_id']) returns
IntOk(u) == u.form = "ok"

\* The test of bot.py:187.
PassesCheck(u) == IsDict(u) /\ HasUpdateId(u)

\* The identifiers of the updates pending at the remote end.
Ids == 5 .. MaxId
PollItems == {OkItem(n) : n \in Ids} \cup {BadItem(f) : f \in Forms \ {"ok"}}

RECURSIVE CountBad(_)
CountBad(s) ==
    IF s = << >> THEN 0
    ELSE (IF Head(s).form = "ok" THEN 0 ELSE 1) + CountBad(Tail(s))

RECURSIVE Flatten(_)
Flatten(bs) == IF bs = << >> THEN << >> ELSE Head(bs).items \o Flatten(Tail(bs))

OkIds(s) == LET t == SelectSeq(s, LAMBDA u : u.form = "ok")
            IN  [i \in 1 .. Len(t) |-> t[i].update_id]

Ascending(s) == \A i, j \in 1 .. Len(s) : i < j => s[i] < s[j]

\* The answers getUpdates(offset=off) may return: the remote API returns the
\* pending updates whose identifier is at least off, in ascending order.
Batches(off) ==
    { b \in UNION { [1 .. n -> PollItems] : n \in 0 .. MaxBatch } :
        /\ Ascending(OkIds(b))
        /\ \A i \in 1 .. Len(b) : b[i].form = "ok" => b[i].update_id >= off
        /\ CountBad(b) + CountBad(Flatten(batches)) <= MaxMalformed }

\* ------------------------------------------------------------------ backoff

\* x * backoff_factor
Backoff(x) == (x * 3) \div 2

RECURSIVE BackoffPow(_, _)
\* x * backoff_factor ** n
BackoffPow(x, n) == IF n = 0 THEN x ELSE BackoffPow(Backoff(x), n - 1)

Min(a, b) == IF a < b THEN a ELSE b

\* ----------------------------------------------------------------- registry

\* A handler record: update_type "" stands for None ("any"), filters "none"
\* for no predicate; callback says how the callback ends: "ok" returns,
\* "raise" raises an Exception, "stop" raises the exception the application
\* uses as its "skip the remaining handlers" signal.
HandlerRec(t, f, c) == [update_type |-> t, filters |-> f, callback |-> c]

\* The records the application has registered, in registration order.
Registry ==
    << HandlerRec("message", "none", "raise"),
       HandlerRec("", "none", "stop"),
       HandlerRec("message", "text", "ok"),
       HandlerRec("callback_query", "strict", "ok") >>

\* ----------------------------------------------------------------- commands

\* A text is the sequence of its characters.
Lower(c) == IF c = "S" THEN "s" ELSE IF c = "H" THEN "h" ELSE c
\* str.lower
LowerText(t) == [i \in 1 .. Len(t) |-> Lower(t[i])]
\* str.startswith
StartsWith(t, p) == Len(p) <= Len(t) /\ SubSeq(t, 1, Len(p)) = p

\* Filters.command(commands, prefixes), on a message with text t (None and
\* the empty text are << >>).
Command(commands, prefixes, t) ==
    /\ t # << >>
    /\ \E prefix \in prefixes, cmd \in commands :
          StartsWith(LowerText(t), prefix \o LowerText(cmd))

\* The text of the message of payload p: the one it carries, some text that
\* is no command when it only says it has one, none otherwise.
TextOf(p) ==
    IF "text" \in DOMAIN p THEN p.text
    ELSE IF p.attr THEN << "h", "i" >> ELSE << >>

\* ------------------------------------------------------------- registration

\* Register with the record put in front of the list.
RegisterAtFront(rec) ==
    /\ Len(handlers) < MaxHandlers
    /\ handlers' = << rec >> \o handlers
    /\ UNCHANGED << pollVars, update_queue, workers, dispatched, errlog, queued,
                    failures, cancelled >>

\* The decorator of on_message, on_update or one of its shortcuts is applied
\* to a callback: self.handlers.append(Handler(func, filters, update_type)).
Register(rec) ==
    /\ Len(handlers) < MaxHandlers
    /\ handlers' = Append(handlers, rec)
    /\ UNCHANGED << pollVars, update_queue, workers, dispatched, errlog, queued,
                    failures, cancelled >>

\* ------------------------------------------------------------------ workers

\* Client.set_worker_count: self.worker_count = max(1, count)
set_worker_count(count) == IF count > 1 THEN count ELSE 1

\* The worker tasks start_workers creates.
WorkerIds == 1 .. set_worker_count(NumWorkers)

IdleWorker == [pc |-> "idle", cancel |-> FALSE, slot |-> 0, hs |-> << >>]

\* Update.from_dict raises: no update_id (KeyError), or the value under the
\* populated key lacks a required field (TypeError).
ParseFails(p) ==
    IsDict(p) /\ (~HasUpdateId(p) \/ (p.kind # "none" /\ p.body = "bad"))

\* What the worker hands to process_update: Update.from_dict(update) for a
\* dict, the payload itself otherwise.
FromDict(p) ==
    IF IsDict(p)
    THEN [isUpdate |-> TRUE, update_id |-> p.update_id, kind |-> p.kind,
          attr |-> p.attr, text |-> TextOf(p)]
    ELSE [isUpdate |-> FALSE, update_id |-> NoId, kind |-> "none",
          attr |-> p.attr, text |-> << >>]

\* The built-in filters on the content of a message other than text() and
\* command(): each is `u.message and <a test of u.message>`.
ContentFilters ==
    {"regex", "user", "chat", "private", "photo", "reply", "forwarded"}

\* EvalFilter with built-in filters that test the value under whichever key
\* the update has, not u.message.
EvalFilterAnyKind(f, u) ==
    IF ~u.isUpdate THEN "raise"
    ELSE IF u.kind # "none" /\ u.attr THEN "true" ELSE "false"

\* A predicate on an update: "true", "false" or "raise".
\*   "text"    Filters.text(): u.message and u.message.text is not None
\*   a filter of ContentFilters
\*             u.message and the attribute of u.message it tests
\*   "strict"  a predicate of the application that reads u.message.text
\*             without testing u.message
\*   "command_start", "command_help"
\*             Filters.command("start"), Filters.command("help"):
\*             u.message and u.message.text and any(... startswith ...)
EvalFilter(f, u) ==
    CASE f = "text" ->
           IF ~u.isUpdate THEN "raise"
           ELSE IF u.kind = "message" /\ u.attr THEN "true" ELSE "false"
      [] f \in ContentFilters ->
           IF ~u.isUpdate THEN "raise"
           ELSE IF u.kind = "message" /\ u.attr THEN "true" ELSE "false"
      [] f = "strict" ->
           IF ~u.isUpdate \/ u.kind # "message" THEN "raise"
           ELSE IF u.attr THEN "true" ELSE "false"
      [] f \in {"command_start", "command_help"} ->
           IF ~u.isUpdate THEN "raise"
           ELSE IF /\ u.kind = "message"
                   /\ Command({IF f = "command_start"
                                THEN << "s", "t", "a", "r", "t" >>
                                ELSE << "h", "e", "l", "p" >>},
                              {<< "/" >>}, u.text)
                THEN "true" ELSE "false"

\* Handler.check
Check(h, u) ==
    IF h.update_type # "" /\ (~u.isUpdate \/ u.kind # h.update_type)
    THEN "false"
    ELSE IF h.filters # "none" THEN EvalFilter(h.filters, u)
    ELSE "true"

HandlerIds == 1 .. Len(handlers)

\* The loop of process_update that collects the matching handlers: a check
\* that raises ends process_update, otherwise every record is tested.
MatchRaises(u) == \E h \in HandlerIds : Check(handlers[h], u) = "raise"

\* Matched over a list whose length was read one registration ago: the
\* record appended last is not tested.
MatchedSkipsLast(u) ==
    { h \in 1 .. Len(handlers) - 1 : Check(handlers[h], u) = "true" }

Matched(u) == { h \in HandlerIds : Check(handlers[h], u) = "true" }

Log(what, at, pos) == [what |-> what, at |-> at, pos |-> pos]

\* The slot of `dispatched` of the update at the head of the queue: the
\* queue is first in, first out.
HeadSlot == queued - Len(update_queue) + 1

\* _queue_update: the source (the poller or the webhook) puts one payload.
Enqueue(p) ==
    /\ pollPc = "await"
    /\ queued < MaxUpdates
    /\ update_queue' = Append(update_queue, p)
    /\ queued' = queued + 1
    /\ dispatched' = Append(dispatched,
           [upd |-> p, outcome |-> "queued", invoked |-> {}, started |-> {},
            completed |-> {}, failed |-> {}, taskdone |-> 0, worker |-> 0,
            args |-> {}])
    /\ UNCHANGED << pollVars, workers, handlers, errlog, failures, cancelled >>

\* OnParseError with the exception leaving the worker task (no handler
\* around the body of the loop).
OnParseErrorFatal(w, s) ==
    /\ dispatched' = [dispatched EXCEPT ![s].outcome = "parse_error",
                                        ![s].worker = w]
    /\ workers' = [workers EXCEPT ![w].pc = "ended"]
    /\ UNCHANGED errlog

\* Update.from_dict raises: the outer handler of the worker logs it and the
\* loop goes on (task_done is not reached).
OnParseError(w, s) ==
    /\ errlog' = errlog \cup {Log("Error in update worker", s, 0)}
    /\ dispatched' = [dispatched EXCEPT ![s].outcome = "parse_error",
                                        ![s].worker = w]
    /\ UNCHANGED workers

\* process_update raises (a check raised): the inner handler of the worker
\* logs it, the update is marked done and the loop goes on.
OnMatchError(w, s) ==
    /\ errlog' = errlog \cup {Log("Error processing update", s, 0)}
    /\ dispatched' = [dispatched EXCEPT ![s].outcome = "match_error",
                                        ![s].worker = w,
                                        ![s].taskdone = @ + 1]
    /\ UNCHANGED workers

\* OnMatched with the handlers started as tasks nobody awaits: the update
\* is marked done and the worker goes back to queue.get() while they run.
OnMatchedNoWait(w, s, m) ==
    /\ dispatched' = [dispatched EXCEPT
           ![s].outcome = IF m = {} THEN "no_match" ELSE "gather",
           ![s].worker = w,
           ![s].invoked = m,
           ![s].taskdone = @ + 1]
    /\ UNCHANGED << workers, errlog >>

\* OnMatched without the test `if matched_handlers`, and with a gather that
\* refuses an empty list: an update no handler matched is logged as an error.
OnMatchedEmptyRaises(w, s, m) ==
    IF m = {}
    THEN OnMatchError(w, s)
    ELSE /\ dispatched' = [dispatched EXCEPT ![s].outcome = "gather",
                                             ![s].worker = w,
                                             ![s].invoked = m]
         /\ workers' = [workers EXCEPT
                ![w].pc = "gather", ![w].slot = s,
                ![w].hs = [h \in HandlerIds |->
                              IF h \in m THEN "pending" ELSE "none"]]
         /\ UNCHANGED errlog

\* process_update with the handlers m it matched: nothing to do for none,
\* otherwise one task per matched handler, and the worker waits in gather.
OnMatched(w, s, m) ==
    IF m = {}
    THEN /\ dispatched' = [dispatched EXCEPT ![s].outcome = "no_match",
                                             ![s].worker = w,
                                             ![s].taskdone = @ + 1]
         /\ UNCHANGED << workers, errlog >>
    ELSE /\ dispatched' = [dispatched EXCEPT ![s].outcome = "gather",
                                             ![s].worker = w,
                                             ![s].invoked = m]
         /\ workers' = [workers EXCEPT
                ![w].pc = "gather", ![w].slot = s,
                ![w].hs = [h \in HandlerIds |->
                              IF h \in m THEN "pending" ELSE "none"]]
         /\ UNCHANGED errlog

\* WorkerGet with the dispatch of one update at a time: no worker takes an
\* update while another waits for the handlers of its own.
WorkerGetOneAtATime(w) ==
    /\ workers[w].pc = "get"
    /\ ~workers[w].cancel
    /\ \A v \in WorkerIds : workers[v].pc # "gather"
    /\ update_queue # << >>
    /\ LET p == Head(update_queue)
           s == HeadSlot
           u == FromDict(p)
       IN  /\ update_queue' = Tail(update_queue)
           /\ IF ParseFails(p) THEN OnParseError(w, s)
              ELSE IF MatchRaises(u) THEN OnMatchError(w, s)
              ELSE OnMatched(w, s, Matched(u))
    /\ UNCHANGED << pollVars, handlers, queued, failures, cancelled >>

\* One turn of _update_worker from queue.get() to its next suspension:
\* parse, match, and either finish with the update or wait in gather.
WorkerGet(w) ==
    /\ workers[w].pc = "get"
    /\ ~workers[w].cancel
    /\ update_queue # << >>
    /\ LET p == Head(update_queue)
           s == HeadSlot
           u == FromDict(p)
       IN  /\ update_queue' = Tail(update_queue)
           /\ IF ParseFails(p) THEN OnParseError(w, s)
              ELSE IF MatchRaises(u) THEN OnMatchError(w, s)
              ELSE OnMatched(w, s, Matched(u))
    /\ UNCHANGED << pollVars, handlers, queued, failures, cancelled >>

\* getattr(update, K) for the update Handler.check has let through.
GetAttr(u, K) ==
    [what |-> IF u.isUpdate /\ u.kind = K THEN "payload" ELSE "None",
     kind |-> K, update_id |-> u.update_id]

\* HandleArg with the callback given the update itself whatever the handler
\* was registered for.
HandleArgEnvelope(h, u) ==
    [what |-> "envelope", kind |-> u.kind, update_id |-> u.update_id]

\* Handler.handle: what the callback is given next to the client, the value
\* under update_type when the handler has one and the update otherwise.
HandleArg(h, u) ==
    IF h.update_type # "" THEN GetAttr(u, h.update_type)
    ELSE [what |-> "envelope", kind |-> u.kind, update_id |-> u.update_id]

\* The call of the callback of handler h for the update of slot s:
\* self.callback(bot, update_obj), bot being the client process_update
\* passes.
Called(h, s) ==
    [handler |-> h, bot |-> "client",
     arg |-> HandleArg(handlers[h], FromDict(dispatched[s].upd))]

\* HandleEnd without the try/except of Handler.handle: the exception of the
\* callback leaves gather and process_update, the worker logs it, marks the
\* update done and goes back to queue.get().
HandleEndNoCatch(w, h) ==
    LET s == workers[w].slot
    IN  IF handlers[h].callback = "ok"
        THEN /\ workers' = [workers EXCEPT ![w].hs[h] = "done"]
             /\ dispatched' = [dispatched EXCEPT ![s].started = @ \cup {h},
                                                 ![s].args = @ \cup {Called(h, s)},
                                                 ![s].completed = @ \cup {h}]
             /\ UNCHANGED errlog
        ELSE /\ workers' = [workers EXCEPT ![w].pc = "get", ![w].slot = 0,
                                           ![w].hs = << >>]
             /\ dispatched' = [dispatched EXCEPT ![s].started = @ \cup {h},
                                                 ![s].args = @ \cup {Called(h, s)},
                                                 ![s].taskdone = @ + 1]
             /\ errlog' = errlog \cup {Log("Error processing update", s, 0)}

\* Handler.handle once the callback has ended.
HandleEnd(w, h) ==
    LET s == workers[w].slot
    IN  IF handlers[h].callback = "ok"
        THEN /\ workers' = [workers EXCEPT ![w].hs[h] = "done"]
             /\ dispatched' = [dispatched EXCEPT ![s].started = @ \cup {h},
                                                 ![s].args = @ \cup {Called(h, s)},
                                                 ![s].completed = @ \cup {h}]
             /\ UNCHANGED errlog
        ELSE /\ workers' = [workers EXCEPT ![w].hs[h] = "failed"]
             /\ dispatched' = [dispatched EXCEPT ![s].started = @ \cup {h},
                                                 ![s].args = @ \cup {Called(h, s)},
                                                 ![s].failed = @ \cup {h}]
             /\ errlog' = errlog \cup {Log("Error in handler", s, h)}

\* HandlerStart with the matched handlers awaited one after the other: a
\* handler starts once every handler before it has ended.
HandlerStartAfterEarlier(w, h, suspends) ==
    /\ workers[w].pc = "gather"
    /\ workers[w].hs[h] = "pending"
    /\ \A g \in 1 .. h - 1 : workers[w].hs[g] \in {"none", "done", "failed"}
    /\ IF suspends
       THEN /\ workers' = [workers EXCEPT ![w].hs[h] = "running"]
            /\ dispatched' = [dispatched EXCEPT
                                 ![workers[w].slot].started = @ \cup {h},
                                 ![workers[w].slot].args =
                                     @ \cup {Called(h, workers[w].slot)}]
            /\ UNCHANGED errlog
       ELSE HandleEnd(w, h)
    /\ UNCHANGED << pollVars, update_queue, handlers, queued, failures, cancelled >>

\* The tasks gather created start in the order they were created; a
\* started callback runs to its first suspension, or to its end when it has
\* none.
HandlerStart(w, h, suspends) ==
    /\ workers[w].pc = "gather"
    /\ workers[w].hs[h] = "pending"
    /\ \A g \in 1 .. h - 1 : workers[w].hs[g] # "pending"
    /\ IF suspends
       THEN /\ workers' = [workers EXCEPT ![w].hs[h] = "running"]
            /\ dispatched' = [dispatched EXCEPT
                                 ![workers[w].slot].started = @ \cup {h},
                                 ![workers[w].slot].args =
                                     @ \cup {Called(h, workers[w].slot)}]
            /\ UNCHANGED errlog
       ELSE HandleEnd(w, h)
    /\ UNCHANGED << pollVars, update_queue, handlers, queued, failures, cancelled >>

\* A suspended callback is resumed and ends.
HandlerFinish(w, h) ==
    /\ workers[w].pc = "gather"
    /\ workers[w].hs[h] = "running"
    /\ HandleEnd(w, h)
    /\ UNCHANGED << pollVars, update_queue, handlers, queued, failures, cancelled >>

\* gather returns when every handler task has ended; the worker marks the
\* update done and goes back to queue.get().
GatherDone(w) ==
    /\ workers[w].pc = "gather"
    /\ \A h \in DOMAIN workers[w].hs :
          workers[w].hs[h] \in {"none", "done", "failed"}
    /\ dispatched' = [dispatched EXCEPT ![workers[w].slot].taskdone = @ + 1]
    /\ workers' = [workers EXCEPT ![w].pc = "get", ![w].slot = 0, ![w].hs = << >>]
    /\ UNCHANGED << pollVars, update_queue, handlers, errlog, queued, failures,
                    cancelled >>

\* ------------------------------------------------------------- cancellation

\* The polling task takes a CancelledError at its suspension point (the
\* request or a sleep) and runs stop_workers up to its gather: it cancels
\* every worker task.
CancelPolling ==
    /\ pollPc \in {"await", "sleep_retry", "sleep_final", "sleep_generic"}
    /\ cancelled' = TRUE
    /\ workers' = [w \in WorkerIds |-> [workers[w] EXCEPT !.cancel = TRUE]]
    /\ pollPc' = "stopping"
    /\ UNCHANGED << offset, attempt, retry_delay, reqOffset, batch, idx, slept,
                    batches, update_queue, handlers, dispatched, errlog, queued,
                    failures >>

\* A cancelled worker takes the CancelledError where it is suspended and
\* leaves its loop; the handler tasks of its gather are cancelled with it.
WorkerCancelled(w) ==
    /\ workers[w].cancel
    /\ workers[w].pc \in {"get", "gather"}
    /\ workers' = [workers EXCEPT
           ![w].pc = "ended",
           ![w].hs = [h \in DOMAIN workers[w].hs |->
                         IF workers[w].hs[h] \in {"pending", "running"}
                         THEN "cancelled" ELSE workers[w].hs[h]]]
    /\ UNCHANGED << pollVars, update_queue, handlers, dispatched, errlog, queued,
                    failures, cancelled >>

\* StopWorkersDone with the worker tasks cancelled and not awaited (no
\* gather in stop_workers): start_polling returns at once.
StopWorkersDoneNoWait ==
    /\ pollPc = "stopping"
    /\ pollPc' = "done"
    /\ UNCHANGED << offset, attempt, retry_delay, reqOffset, batch, idx, slept,
                    batches, update_queue, workers, handlers, dispatched, errlog,
                    queued, failures, cancelled >>

\* stop_workers' gather returns; start_polling returns.
StopWorkersDone ==
    /\ pollPc = "stopping"
    /\ \A w \in WorkerIds : workers[w].pc = "ended"
    /\ pollPc' = "done"
    /\ UNCHANGED << offset, attempt, retry_delay, reqOffset, batch, idx, slept,
                    batches, update_queue, workers, handlers, dispatched, errlog,
                    queued, failures, cancelled >>

\* ------------------------------------------------------------ the life cycle

\* The worker tasks created so far that have not ended.
RunningWorkers == { w \in DOMAIN workers : workers[w].pc # "ended" }

\* The tasks the list of the client holds.
Held == { worker_tasks[i] : i \in DOMAIN worker_tasks }

\* stop_workers has cancelled the tasks of the list and waits in its gather.
Stopping == \E w \in Held : workers[w].cancel

\* Started with a loop that runs once more than worker_count.
StartedOneMore(n) == [i \in 1 .. n + 1 |-> [IdleWorker EXCEPT !.pc = "get"]]

\* The loop of start_workers: n tasks, each at the queue.get() of
\* _update_worker.
Started(n) == [i \in 1 .. n |-> [IdleWorker EXCEPT !.pc = "get"]]

\* start_workers, as start_polling and setup_webhook call it: the list is
\* replaced by worker_count new tasks; the tasks it held are left as they are.
StartWorkers ==
    /\ ~Stopping
    /\ Len(workers) + worker_count <= MaxStarts * worker_count
    /\ workers' = workers \o Started(worker_count)
    /\ worker_tasks' = [i \in 1 .. worker_count |-> Len(workers) + i]
    /\ UNCHANGED << pollVars, update_queue, handlers, dispatched, errlog,
                    queued, failures, cancelled, limVars, requests, sample,
                    token, base_url, worker_count, initialized, constructed >>

\* stop_workers up to its gather: every task of the list is cancelled.
StopWorkersCancel ==
    /\ worker_tasks # << >>
    /\ ~Stopping
    /\ workers' = [w \in DOMAIN workers |->
                      IF w \in Held THEN [workers[w] EXCEPT !.cancel = TRUE]
                      ELSE workers[w]]
    /\ UNCHANGED << pollVars, update_queue, handlers, dispatched, errlog,
                    queued, failures, cancelled, extVars >>

\* The gather of stop_workers returns once the tasks of the list have ended;
\* the list is emptied and stop_workers returns.
StopWorkersReturn ==
    /\ Stopping
    /\ \A w \in Held : workers[w].pc = "ended"
    /\ worker_tasks' = << >>
    /\ UNCHANGED << pollVars, update_queue, workers, handlers, dispatched,
                    errlog, queued, failures, cancelled, limVars, requests,
                    sample, token, base_url, worker_count, initialized,
                    constructed >>

\* ---------------------------------------------------------------- the poller

\* start_polling up to its first request: the locals, then start_workers.
StartPolling ==
    /\ pollPc = "start"
    /\ offset' = 0
    /\ retry_delay' = InitialRetryDelay
    /\ attempt' = 0
    /\ workers' = [w \in WorkerIds |-> [IdleWorker EXCEPT !.pc = "get"]]
    /\ pollPc' = "request"
    /\ UNCHANGED << reqOffset, batch, idx, slept, update_queue, batches,
                    dispatched, errlog, queued, cancelled, handlers >>

\* The request of one attempt is sent with the cursor as its offset.
GetUpdates ==
    /\ pollPc = "request"
    /\ reqOffset' = offset
    /\ pollPc' = "await"
    /\ UNCHANGED << offset, attempt, retry_delay, batch, idx, slept,
                    update_queue, workers, batches, dispatched, errlog,
                    queued, cancelled, handlers >>

\* The request returns a batch.
PollOk(b) ==
    /\ pollPc = "await"
    /\ batch' = b
    /\ idx' = 1
    /\ batches' = IF b = << >> THEN batches
                  ELSE Append(batches, [offset |-> reqOffset, items |-> b])
    /\ pollPc' = "iterate"
    /\ UNCHANGED << offset, attempt, retry_delay, reqOffset, slept,
                    update_queue, workers, dispatched, errlog, queued,
                    cancelled, handlers >>

\* QueueItem with the cursor assigned before the put (lines 188 and 189
\* the other way round).
QueueItemCursorFirst ==
    /\ pollPc = "iterate"
    /\ idx <= Len(batch)
    /\ IF PassesCheck(batch[idx])
       THEN /\ offset' = IF IntOk(batch[idx]) THEN batch[idx].update_id + 1 ELSE offset
            /\ pollPc' = "advance"
            /\ UNCHANGED << idx, errlog >>
       ELSE /\ errlog' = errlog \cup {Log("invalid update", Len(batches), idx)}
            /\ idx' = idx + 1
            /\ UNCHANGED << offset, pollPc >>
    /\ UNCHANGED << update_queue, attempt, retry_delay, reqOffset, batch, slept,
                    workers, batches, dispatched, queued, cancelled, handlers >>

\* QueueItem with the payload put at the head of the queue.
QueueItemAtHead ==
    /\ pollPc = "iterate"
    /\ idx <= Len(batch)
    /\ IF PassesCheck(batch[idx])
       THEN /\ update_queue' = << batch[idx] >> \o update_queue
            /\ pollPc' = "advance"
            /\ UNCHANGED << idx, errlog >>
       ELSE /\ errlog' = errlog \cup {Log("invalid update", Len(batches), idx)}
            /\ idx' = idx + 1
            /\ UNCHANGED << update_queue, pollPc >>
    /\ UNCHANGED << offset, attempt, retry_delay, reqOffset, batch, slept,
                    workers, batches, dispatched, queued, cancelled, handlers >>

\* One turn of `for update in updates` up to the put: a payload that passes
\* the test is put on the queue, any other is logged and skipped.
QueueItem ==
    /\ pollPc = "iterate"
    /\ idx <= Len(batch)
    /\ IF PassesCheck(batch[idx])
       THEN /\ update_queue' = Append(update_queue, batch[idx])
            /\ pollPc' = "advance"
            /\ UNCHANGED << idx, errlog >>
       ELSE /\ errlog' = errlog \cup {Log("invalid update", Len(batches), idx)}
            /\ idx' = idx + 1
            /\ UNCHANGED << update_queue, pollPc >>
    /\ UNCHANGED << offset, attempt, retry_delay, reqOffset, batch, slept,
                    workers, batches, dispatched, queued, cancelled, handlers >>

\* AdvanceCursor with the cursor set to the identifier itself.
AdvanceCursorNoIncrement ==
    /\ pollPc = "advance"
    /\ IF IntOk(batch[idx])
       THEN /\ offset' = batch[idx].update_id
            /\ idx' = idx + 1
            /\ pollPc' = "iterate"
            /\ UNCHANGED << slept, errlog >>
       ELSE /\ errlog' = errlog \cup {Log("Error while polling", Len(batches), idx)}
            /\ slept' = retry_delay
            /\ pollPc' = "sleep_generic"
            /\ UNCHANGED << offset, idx >>
    /\ UNCHANGED << attempt, retry_delay, reqOffset, batch, update_queue,
                    workers, batches, dispatched, queued, cancelled, handlers >>

\* AdvanceCursor with the cursor set to the identifier of the request plus
\* the position in the batch (a count instead of the identifier read).
AdvanceCursorByCount ==
    /\ pollPc = "advance"
    /\ IF IntOk(batch[idx])
       THEN /\ offset' = offset + 1
            /\ idx' = idx + 1
            /\ pollPc' = "iterate"
            /\ UNCHANGED << slept, errlog >>
       ELSE /\ errlog' = errlog \cup {Log("Error while polling", Len(batches), idx)}
            /\ slept' = retry_delay
            /\ pollPc' = "sleep_generic"
            /\ UNCHANGED << offset, idx >>
    /\ UNCHANGED << attempt, retry_delay, reqOffset, batch, update_queue,
                    workers, batches, dispatched, queued, cancelled, handlers >>

\* offset = int(update['update_id']) + 1.  When int() raises, the generic
\* handler of the attempt runs: the rest of the batch is left, and the task
\* sleeps retry_delay.
AdvanceCursor ==
    /\ pollPc = "advance"
    /\ IF IntOk(batch[idx])
       THEN /\ offset' = batch[idx].update_id + 1
            /\ idx' = idx + 1
            /\ pollPc' = "iterate"
            /\ UNCHANGED << slept, errlog >>
       ELSE /\ errlog' = errlog \cup {Log("Error while polling", Len(batches), idx)}
            /\ slept' = retry_delay
            /\ pollPc' = "sleep_generic"
            /\ UNCHANGED << offset, idx >>
    /\ UNCHANGED << attempt, retry_delay, reqOffset, batch, update_queue,
                    workers, batches, dispatched, queued, cancelled, handlers >>

\* The batch is through: the base delay is reset and the retry loop left.
BatchDone ==
    /\ pollPc = "iterate"
    /\ idx > Len(batch)
    /\ retry_delay' = InitialRetryDelay
    /\ attempt' = 0
    /\ pollPc' = "request"
    /\ UNCHANGED << offset, reqOffset, batch, idx, slept, update_queue,
                    workers, batches, dispatched, errlog, queued, cancelled, handlers >>

\* The request raises aiohttp.ClientError.
PollClientError ==
    /\ pollPc = "await"
    /\ IF attempt < max_retries - 1
       THEN /\ slept' = BackoffPow(retry_delay, attempt)
            /\ pollPc' = "sleep_retry"
       ELSE /\ slept' = retry_delay * 2
            /\ pollPc' = "sleep_final"
    /\ UNCHANGED << offset, attempt, retry_delay, reqOffset, batch, idx,
                    update_queue, workers, batches, dispatched, errlog,
                    queued, cancelled, handlers >>

\* PollOtherError with the cursor moved past the request that failed.
PollOtherErrorSkips ==
    /\ pollPc = "await"
    /\ slept' = retry_delay
    /\ offset' = offset + 1
    /\ pollPc' = "sleep_generic"
    /\ UNCHANGED << attempt, retry_delay, reqOffset, batch, idx,
                    update_queue, workers, batches, dispatched, errlog,
                    queued, cancelled, handlers >>

\* The request raises any other Exception (an API error, a timeout, an
\* answer that is no JSON).
PollOtherError ==
    /\ pollPc = "await"
    /\ slept' = retry_delay
    /\ pollPc' = "sleep_generic"
    /\ UNCHANGED << offset, attempt, retry_delay, reqOffset, batch, idx,
                    update_queue, workers, batches, dispatched, errlog,
                    queued, cancelled, handlers >>

\* The attempt index after one more turn of `for attempt in range(max_retries)`;
\* when the range is used up `while True` starts it again.
NextAttempt(a) == IF a < max_retries - 1 THEN a + 1 ELSE 0

\* Wake with the polling loop left once the retries are used up (the
\* retry loop not wrapped in `while True`).
WakeGivesUp ==
    /\ pollPc \in {"sleep_retry", "sleep_final", "sleep_generic"}
    /\ retry_delay' = IF pollPc = "sleep_retry" THEN retry_delay
                      ELSE Min(Backoff(retry_delay), MaxRetryDelay)
    /\ attempt' = NextAttempt(attempt)
    /\ pollPc' = IF attempt < max_retries - 1 THEN "request" ELSE "stopping"
    /\ UNCHANGED << offset, reqOffset, batch, idx, slept, update_queue,
                    workers, batches, dispatched, errlog, queued, cancelled, handlers >>

\* A sleep returns: the handler's last statement, then the next attempt.
Wake ==
    /\ pollPc \in {"sleep_retry", "sleep_final", "sleep_generic"}
    /\ retry_delay' = IF pollPc = "sleep_retry" THEN retry_delay
                      ELSE Min(Backoff(retry_delay), MaxRetryDelay)
    /\ attempt' = NextAttempt(attempt)
    /\ pollPc' = "request"
    /\ UNCHANGED << offset, reqOffset, batch, idx, slept, update_queue,
                    workers, batches, dispatched, errlog, queued, cancelled, handlers >>

\* ---------------------------------------------------------------- transport

dispVars == << update_queue, workers, handlers, dispatched, errlog, queued,
               failures, cancelled >>

CallerIds == 1 .. NumCallers
NoTime == 0 - 1

\* A task that has made no call yet.  via says how its call goes out:
\* "limited" through _rate_limited_api_call, "direct" to Methods.
\* tries counts the requests the call has sent and error names what it
\* raised.
IdleCall ==
    [pc |-> "idle", via |-> "none", wake |-> NoTime, sent |-> NoTime,
     tries |-> 0, error |-> "none"]

\* Client.token and Methods.base_url before set_token: None, which the
\* tests `not self.token` and `not self.base_url` take like an empty value.
NoToken == ""
NoUrl == << >>

\* Methods._make_request before a token is set: ValueError, nothing is sent.
TokenNotSet(c, via) ==
    [IdleCall EXCEPT !.pc = "failed", !.via = via, !.error = "ValueError"]

\* _rate_limited_api_call from the permit to the next suspension: the time
\* since the last request is measured; when it is below request_interval the
\* task sleeps for the rest of it, otherwise the request goes out.
Enter(c) ==
    LET since_last == now - last_request_time
    IN  IF since_last < request_interval
        THEN /\ rate_limiter' = rate_limiter - 1
             /\ calls' = [calls EXCEPT ![c] =
                    [IdleCall EXCEPT !.pc = "sleeping", !.via = "limited",
                         !.wake = now + (request_interval - since_last)]]
        ELSE IF base_url = NoUrl
        THEN /\ calls' = [calls EXCEPT ![c] = TokenNotSet(c, "limited")]
             /\ UNCHANGED rate_limiter
        ELSE /\ rate_limiter' = rate_limiter - 1
             /\ calls' = [calls EXCEPT ![c] =
                    [IdleCall EXCEPT !.pc = "inflight", !.via = "limited",
                         !.sent = now, !.tries = 1]]

\* A task calls _rate_limited_api_call: it takes a permit when one is free
\* and waits in the semaphore otherwise.
ApiCall(c) ==
    /\ calls[c].pc = "idle"
    /\ IF rate_limiter > 0
       THEN Enter(c)
       ELSE /\ calls' = [calls EXCEPT ![c].pc = "waiting", ![c].via = "limited"]
            /\ UNCHANGED rate_limiter
    /\ UNCHANGED << now, last_request_time, pollVars, dispVars, requests, sample, cfgVars >>

\* A permit is free and a task waiting in the semaphore takes it.
PermitGranted(c) ==
    /\ calls[c].pc = "waiting"
    /\ rate_limiter > 0
    /\ Enter(c)
    /\ UNCHANGED << now, last_request_time, pollVars, dispVars, requests, sample, cfgVars >>

\* The sleep returns (not before its delay has passed) and the request goes
\* out.
SleepDone(c) ==
    /\ calls[c].pc = "sleeping"
    /\ now >= calls[c].wake
    /\ IF base_url = NoUrl
       THEN /\ calls' = [calls EXCEPT ![c] = TokenNotSet(c, "limited")]
            /\ rate_limiter' = rate_limiter + 1
       ELSE /\ calls' = [calls EXCEPT ![c].pc = "inflight", ![c].sent = now,
                                      ![c].tries = @ + 1]
            /\ UNCHANGED rate_limiter
    /\ UNCHANGED << now, last_request_time, pollVars, dispVars, requests,
                    sample, cfgVars >>

\* CallEnd with the permit released by hand after the request (no
\* `async with`): a request that raises keeps its permit.
CallEndKeepsPermit(c, ok) ==
    /\ calls[c].pc = "inflight"
    /\ calls[c].via = "limited"
    /\ IF ok
       THEN /\ last_request_time' = now
            /\ rate_limiter' = rate_limiter + 1
            /\ calls' = [calls EXCEPT ![c].pc = "done"]
       ELSE /\ calls' = [calls EXCEPT ![c].pc = "failed",
                                      ![c].error = "Exception"]
            /\ UNCHANGED << last_request_time, rate_limiter >>
    /\ UNCHANGED << now, pollVars, dispVars, requests, sample, cfgVars >>

\* CallEnd with a request that failed sent once more before the failure is
\* raised to the caller.
CallEndRetries(c, ok) ==
    /\ calls[c].pc = "inflight"
    /\ calls[c].via = "limited"
    /\ IF ok
       THEN /\ last_request_time' = now
            /\ rate_limiter' = rate_limiter + 1
            /\ calls' = [calls EXCEPT ![c].pc = "done"]
       ELSE IF calls[c].tries < 2
       THEN /\ calls' = [calls EXCEPT ![c].sent = now, ![c].tries = @ + 1]
            /\ UNCHANGED << last_request_time, rate_limiter >>
       ELSE /\ calls' = [calls EXCEPT ![c].pc = "failed",
                                      ![c].error = "Exception"]
            /\ rate_limiter' = rate_limiter + 1
            /\ UNCHANGED last_request_time
    /\ UNCHANGED << now, pollVars, dispVars, requests, sample, cfgVars >>

\* The request returns (last_request_time is set) or raises; either way the
\* `async with` gives the permit back.
CallEnd(c, ok) ==
    /\ calls[c].pc = "inflight"
    /\ calls[c].via = "limited"
    /\ rate_limiter' = rate_limiter + 1
    /\ IF ok
       THEN /\ last_request_time' = now
            /\ calls' = [calls EXCEPT ![c].pc = "done"]
       ELSE /\ calls' = [calls EXCEPT ![c].pc = "failed",
                                      ![c].error = "Exception"]
            /\ UNCHANGED last_request_time
    /\ UNCHANGED << now, pollVars, dispVars, requests, sample, cfgVars >>

\* DirectCall without the test of base_url in _make_request: the request
\* goes out with no token in its address.
DirectCallUnchecked(c) ==
    /\ calls[c].pc = "idle"
    /\ calls' = [calls EXCEPT ![c] =
           [IdleCall EXCEPT !.pc = "inflight", !.via = "direct",
                !.sent = now, !.tries = 1]]
    /\ UNCHANGED << now, last_request_time, rate_limiter, pollVars, dispVars,
                    requests, sample, cfgVars >>

\* A callback calls a method of the client (Client.__getattr__ hands it to
\* Methods) or a helper of the payload (Message.reply calls
\* Methods.get_current()): the request goes out at once.
DirectCall(c) ==
    /\ calls[c].pc = "idle"
    /\ calls' = [calls EXCEPT ![c] =
           IF base_url = NoUrl THEN TokenNotSet(c, "direct")
           ELSE [IdleCall EXCEPT !.pc = "inflight", !.via = "direct",
                     !.sent = now, !.tries = 1]]
    /\ UNCHANGED << now, last_request_time, rate_limiter, pollVars, dispVars,
                    requests, sample, cfgVars >>

\* A direct request returns or raises.
DirectEnd(c, ok) ==
    /\ calls[c].pc = "inflight"
    /\ calls[c].via = "direct"
    /\ calls' = [calls EXCEPT ![c].pc = IF ok THEN "done" ELSE "failed",
                              ![c].error = IF ok THEN "none" ELSE "Exception"]
    /\ UNCHANGED << now, last_request_time, rate_limiter, pollVars, dispVars,
                    requests, sample, cfgVars >>

\* Methods.set_token: the base URL with the token in its path.
Url(t) == << "https://api.telegram.org/bot", t, "/" >>

\* Client.set_token
SetToken(t) ==
    /\ token' = t
    /\ base_url' = Url(t)
    /\ UNCHANGED << limVars, pollVars, dispVars, requests, sample,
                    worker_count, worker_tasks, initialized, constructed >>

\* Client.initialize: ValueError without a token, otherwise getMe through
\* _rate_limited_api_call.
Initialize(c) ==
    /\ calls[c].pc = "idle"
    /\ IF token = NoToken
       THEN /\ calls' = [calls EXCEPT ![c] = TokenNotSet(c, "initialize")]
            /\ UNCHANGED rate_limiter
       ELSE IF rate_limiter > 0
       THEN Enter(c)
       ELSE /\ calls' = [calls EXCEPT ![c].pc = "waiting", ![c].via = "limited"]
            /\ UNCHANGED rate_limiter
    /\ UNCHANGED << now, last_request_time, pollVars, dispVars, requests,
                    sample, cfgVars >>

\* The clock advances by one step.
Tick ==
    /\ now < MaxTime
    /\ now' = now + 1
    /\ UNCHANGED << last_request_time, rate_limiter, calls, pollVars, dispVars,
                    requests, sample, cfgVars >>

\* ------------------------------------------------------------- construction

\* Client.__new__: the instance the class holds, made at the first call.
Instance == IF constructed = << >> THEN 1 ELSE constructed[1].instance

\* What load_plugins leaves in the registry: the handlers the plugin modules
\* it executes register on the client.
PluginHandlers == << HandlerRec("message", "none", "ok") >>

\* Construct with an __init__ that does not test `initialized`: every call
\* sets the fields again.
ConstructAgain(t, p) ==
    /\ Len(constructed) < MaxConstructions
    /\ constructed' = Append(constructed,
           [token |-> t, plugins_dir |-> p, instance |-> Instance])
    /\ token' = t
    /\ base_url' = IF t # NoToken THEN Url(t) ELSE base_url
    /\ handlers' = IF p THEN PluginHandlers ELSE << >>
    /\ update_queue' = << >>
    /\ worker_tasks' = << >>
    /\ worker_count' = 10
    /\ last_request_time' = 0
    /\ rate_limiter' = Permits
    /\ initialized' = TRUE
    /\ UNCHANGED << pollVars, workers, dispatched, errlog, queued, failures,
                    cancelled, now, calls, requests, sample >>

\* Client(token, plugins_dir): __new__ returns the instance of the class and
\* __init__ returns at once when it is initialized; otherwise it sets the
\* fields, the token when one is given (Methods.base_url keeps its value
\* without one) and loads the plugins when a directory is given.
Construct(t, p) ==
    /\ Len(constructed) < MaxConstructions
    /\ constructed' = Append(constructed,
           [token |-> t, plugins_dir |-> p, instance |-> Instance])
    /\ IF initialized
       THEN UNCHANGED << token, base_url, handlers, update_queue, worker_tasks,
                         worker_count, last_request_time, rate_limiter,
                         initialized >>
       ELSE /\ token' = t
            /\ base_url' = IF t # NoToken THEN Url(t) ELSE base_url
            /\ handlers' = IF p THEN PluginHandlers ELSE << >>
            /\ update_queue' = << >>
            /\ worker_tasks' = << >>
            /\ worker_count' = 10
            /\ last_request_time' = 0
            /\ rate_limiter' = Permits
            /\ initialized' = TRUE
    /\ UNCHANGED << pollVars, workers, dispatched, errlog, queued, failures,
                    cancelled, now, calls, requests, sample >>

\* Client.set_worker_count
SetWorkerCount(count) ==
    /\ worker_count' = set_worker_count(count)
    /\ UNCHANGED << pollVars, update_queue, workers, handlers, dispatched,
                    errlog, queued, failures, cancelled, limVars, requests,
                    sample, token, base_url, worker_tasks, initialized,
                    constructed >>

\* ------------------------------------------------------------------ webhook

HttpMethods == {"POST", "GET"}
Paths == {webhook_path, "/other"}

\* The body of a request: json says whether request.json() parses it, value
\* is what it parses to.
Body(j, v) == [json |-> j, value |-> v]

\* The bodies the endpoint receives; n is the identifier of the update: an
\* update, a dict without update_id, a JSON value that is no dict, and a body
\* that is no JSON.
HookBodies(n) ==
    { Body(TRUE, Payload("ok", n, "message", "good", FALSE)),
      Body(TRUE, Payload("noid", NoId, "message", "good", FALSE)),
      Body(TRUE, Payload("notdict", NoId, "none", "good", FALSE)),
      Body(FALSE, Payload("notdict", NoId, "none", "good", FALSE)) }

RequestIds == 1 .. Len(requests)

\* WebhookRequest with the path tested before the method.
WebhookRequestPathFirst(m, p, b) ==
    /\ Len(requests) < MaxRequests
    /\ requests' = Append(requests,
           [method |-> m, path |-> p, body |-> b,
            pc |-> IF m # "POST" \/ p # webhook_path THEN "answered" ELSE "json",
            status |-> IF p # webhook_path THEN 404
                       ELSE IF m # "POST" THEN 405 ELSE 0,
            slot |-> 0])
    /\ UNCHANGED << pollVars, dispVars, limVars, sample, cfgVars >>

\* _handle_webhook_request up to request.json(): a request that is no POST
\* is answered 405, a POST to another path 404, and the body of any other is
\* read.
WebhookRequest(m, p, b) ==
    /\ Len(requests) < MaxRequests
    /\ requests' = Append(requests,
           [method |-> m, path |-> p, body |-> b,
            pc |-> IF m # "POST" \/ p # webhook_path THEN "answered" ELSE "json",
            status |-> IF m # "POST" THEN 405
                       ELSE IF p # webhook_path THEN 404 ELSE 0,
            slot |-> 0])
    /\ UNCHANGED << pollVars, dispVars, limVars, sample, cfgVars >>

\* WebhookBody with the update processed by the endpoint itself (parsed and
\* handed to process_update, as handle_webhook of webhook.py does) instead
\* of put on the queue.
WebhookBodyDirect(k) ==
    /\ k \in RequestIds
    /\ requests[k].pc = "json"
    /\ IF requests[k].body.json
       THEN /\ requests' = [requests EXCEPT ![k].pc = "answered", ![k].status = 200]
            /\ UNCHANGED errlog
       ELSE /\ requests' = [requests EXCEPT ![k].pc = "answered", ![k].status = 500]
            /\ errlog' = errlog \cup {Log("Error handling webhook request", k, 0)}
    /\ UNCHANGED << update_queue, queued, dispatched >>
    /\ UNCHANGED << pollVars, workers, handlers, failures, cancelled, limVars, sample, cfgVars >>

\* WebhookBody with the answer held back until the update has been
\* dispatched: the update is put on the queue when the body is read, and 200
\* is answered once its handlers are through.
WebhookBodyAwaitsDispatch(k) ==
    /\ k \in RequestIds
    /\ \/ /\ requests[k].pc = "json"
          /\ IF requests[k].body.json
             THEN /\ update_queue' = Append(update_queue, requests[k].body.value)
                  /\ queued' = queued + 1
                  /\ dispatched' = Append(dispatched,
                         [upd |-> requests[k].body.value, outcome |-> "queued",
                          invoked |-> {}, started |-> {}, completed |-> {},
                          failed |-> {}, taskdone |-> 0, worker |-> 0,
                          args |-> {}])
                  /\ requests' = [requests EXCEPT ![k].pc = "dispatch",
                                                  ![k].slot = queued + 1]
                  /\ UNCHANGED errlog
             ELSE /\ requests' = [requests EXCEPT ![k].pc = "answered",
                                                  ![k].status = 500]
                  /\ errlog' = errlog \cup {Log("Error handling webhook request", k, 0)}
                  /\ UNCHANGED << update_queue, queued, dispatched >>
       \/ /\ requests[k].pc = "dispatch"
          /\ dispatched[requests[k].slot].outcome # "queued"
          /\ workers[dispatched[requests[k].slot].worker].slot # requests[k].slot
          /\ requests' = [requests EXCEPT ![k].pc = "answered", ![k].status = 200]
          /\ UNCHANGED << update_queue, queued, dispatched, errlog >>
    /\ UNCHANGED << pollVars, workers, handlers, failures, cancelled, limVars, sample, cfgVars >>

\* request.json() has returned or raised.  A body that parses is put on the
\* queue as it is (_queue_update does not suspend: the queue is unbounded)
\* and 200 is answered; a body that does not parse is logged and 500 is
\* answered.
WebhookBody(k) ==
    /\ k \in RequestIds
    /\ requests[k].pc = "json"
    /\ IF requests[k].body.json
       THEN /\ update_queue' = Append(update_queue, requests[k].body.value)
            /\ queued' = queued + 1
            /\ dispatched' = Append(dispatched,
                   [upd |-> requests[k].body.value, outcome |-> "queued",
                    invoked |-> {}, started |-> {}, completed |-> {},
                    failed |-> {}, taskdone |-> 0, worker |-> 0,
                    args |-> {}])
            /\ requests' = [requests EXCEPT ![k].pc = "answered",
                                            ![k].status = 200,
                                            ![k].slot = queued + 1]
            /\ UNCHANGED errlog
       ELSE /\ requests' = [requests EXCEPT ![k].pc = "answered",
                                            ![k].status = 500]
            /\ errlog' = errlog \cup {Log("Error handling webhook request", k, 0)}
            /\ UNCHANGED << update_queue, queued, dispatched >>
    /\ UNCHANGED << pollVars, workers, handlers, failures, cancelled, limVars, sample, cfgVars >>

\* ------------------------------------------------------------------ filters

\* The values a predicate returns, as Python writes them, and their truth
\* value.
PyValues == {"True", "False", "None", "0", "'x'"}
Truthy(v) == v \in {"True", "'x'"}

SampleUpdates == 1 .. NumSamples

\* A Filter, by what its func returns for each update of the sample.
FilterTables == [SampleUpdates -> PyValues]

\* Filter.__and__ written with `or`.
FilterAndAsOr(f, g) ==
    [u \in SampleUpdates |-> IF Truthy(f[u]) THEN f[u] ELSE g[u]]

\* Filter.__and__: self(update) and other(update)
FilterAnd(f, g) ==
    [u \in SampleUpdates |-> IF Truthy(f[u]) THEN g[u] ELSE f[u]]

\* Filter.__invert__: not self(update)
FilterInvert(f) ==
    [u \in SampleUpdates |-> IF Truthy(f[u]) THEN "False" ELSE "True"]

NoSample ==
    [A |-> [u \in SampleUpdates |-> "False"],
     B |-> [u \in SampleUpdates |-> "False"],
     res |-> [u \in SampleUpdates |-> "unset"]]

\* The composed filter A & ~B is called on update u.
ApplyFilter(u) ==
    /\ sample.res[u] = "unset"
    /\ sample' = [sample EXCEPT
           !.res[u] = FilterAnd(sample.A, FilterInvert(sample.B))[u]]
    /\ UNCHANGED << pollVars, dispVars, limVars, requests, cfgVars >>

\* A Filter as an expression over the two filters A and B of the sample: a
\* composed Filter keeps its operands and calls them when it is called.
Leaf(n) == [type |-> "Filter", op |-> "leaf", name |-> n]
\* Filter.__and__, Filter.__or__, Filter.__invert__: Filter(lambda update: ...)
Composed(o, f, g) == [type |-> "Filter", op |-> o, l |-> f, r |-> g]

\* What a call returns: the value, and the operands that were called, in
\* the order of their calls.
NotCalled == [val |-> "unset", seen |-> << >>]

\* AndResult with both operands called whatever the first returns.
AndResultBoth(a, b) ==
    [val |-> IF Truthy(a.val) THEN b.val ELSE a.val, seen |-> a.seen \o b.seen]

\* self(update) and other(update), a and b being what the two calls return:
\* the second call is made only when the first value is true.
AndResult(a, b) ==
    IF Truthy(a.val) THEN [val |-> b.val, seen |-> a.seen \o b.seen] ELSE a

\* self(update) or other(update)
OrResult(a, b) ==
    IF Truthy(a.val) THEN a ELSE [val |-> b.val, seen |-> a.seen \o b.seen]

\* not self(update)
NotResult(a) ==
    [val |-> IF Truthy(a.val) THEN "False" ELSE "True", seen |-> a.seen]

\* Filter.__call__ on update u.
RECURSIVE CallFilter(_, _)
CallFilter(f, u) ==
    CASE f.op = "leaf" -> [val |-> sample[f.name][u], seen |-> << f.name >>]
      [] f.op = "and"  -> AndResult(CallFilter(f.l, u), CallFilter(f.r, u))
      [] f.op = "or"   -> OrResult(CallFilter(f.l, u), CallFilter(f.r, u))
      [] f.op = "not"  -> NotResult(CallFilter(f.l, u))

\* The filter held is composed with &, | (with B) or ~: a new Filter, which
\* has not been called.
Compose(o) ==
    /\ IF sample.expr.op = "leaf" THEN TRUE ELSE sample.expr.l.op = "leaf"
    /\ sample' = [sample EXCEPT
           !.expr = IF o = "not" THEN Composed("not", sample.expr, sample.expr)
                    ELSE Composed(o, sample.expr, Leaf("B")),
           !.res = [u \in SampleUpdates |-> NotCalled]]
    /\ UNCHANGED << pollVars, dispVars, limVars, requests, cfgVars >>

\* The filter held is called on update u.
CallComposed(u) ==
    /\ sample.res[u] = NotCalled
    /\ sample' = [sample EXCEPT !.res[u] = CallFilter(sample.expr, u)]
    /\ UNCHANGED << pollVars, dispVars, limVars, requests, cfgVars >>

\* The texts of the messages of the command specification:
\* /start, /help, /Start and start.
CommandTexts ==
    { << "/", "s", "t", "a", "r", "t" >>,
      << "/", "h", "e", "l", "p" >>,
      << "/", "S", "t", "a", "r", "t" >>,
      << "s", "t", "a", "r", "t" >> }

\* The updates of the command specification: a message with a text, whole
\* (body "good") or made of its text alone (body "bad": no message_id, no
\* date, no chat).
CommandPayloads(n) ==
    { [form |-> "ok", update_id |-> 100 + n, kind |-> "message", body |-> b,
       attr |-> TRUE, text |-> t] : b \in {"good", "bad"}, t \in CommandTexts }

\* on_message(filters.command("start")) and on_message(filters.command("help"))
CommandRegistry ==
    << HandlerRec("message", "command_start", "ok"),
       HandlerRec("message", "command_help", "ok") >>

\* ------------------------------------------------------------- specifications

\* Nothing has gone through the transport, the endpoint or a composed filter.
InitExt ==
    /\ now = request_interval
    /\ last_request_time = 0
    /\ rate_limiter = Permits
    /\ calls = [c \in CallerIds |-> IdleCall]
    /\ requests = << >>
    /\ sample = NoSample
    /\ token = "token"
    /\ base_url = Url("token")
    /\ worker_count = set_worker_count(NumWorkers)
    /\ worker_tasks = << >>
    /\ initialized = TRUE
    /\ constructed = << ModuleImport >>

InitPoll ==
    /\ pollPc = "start"
    /\ offset = 0
    /\ attempt = 0
    /\ retry_delay = InitialRetryDelay
    /\ reqOffset = 0
    /\ batch = << >>
    /\ idx = 1
    /\ slept = 0
    /\ update_queue = << >>
    /\ workers = [w \in WorkerIds |-> IdleWorker]
    /\ handlers = Registry
    /\ batches = << >>
    /\ dispatched = << >>
    /\ errlog = {}
    /\ queued = 0
    /\ failures = 0
    /\ cancelled = FALSE
    /\ InitExt

\* The remote end fails a bounded number of calls.
Failing(A) ==
    failures < MaxFailures /\ failures' = failures + 1 /\ A /\ UNCHANGED extVars
Steady(A) == A /\ UNCHANGED failures /\ UNCHANGED extVars

NextPoll ==
    \/ Steady(StartPolling)
    \/ Steady(GetUpdates)
    \/ \E b \in Batches(reqOffset) : Steady(PollOk(b))
    \/ Steady(QueueItem)
    \/ Steady(AdvanceCursor)
    \/ Steady(BatchDone)
    \/ Failing(PollClientError)
    \/ Failing(PollOtherError)
    \/ Steady(Wake)
    \/ Steady(CancelPolling)
    \/ \E w \in WorkerIds : Steady(WorkerCancelled(w))
    \/ Steady(StopWorkersDone)

SpecPoll == InitPoll /\ [][NextPoll]_vars

\* The backoff specification: the remote end fails any number of calls (the
\* count stops at MaxFailures) and answers with at most one well-formed
\* update.
Counted(A) ==
    /\ A
    /\ failures' = IF failures < MaxFailures THEN failures + 1 ELSE failures
    /\ UNCHANGED extVars

BackoffBatches(off) == { b \in Batches(off) : Len(b) <= 1 /\ CountBad(b) = 0 }

PollTask ==
    \/ Steady(StartPolling)
    \/ Steady(GetUpdates)
    \/ \E b \in BackoffBatches(reqOffset) : Steady(PollOk(b))
    \/ Steady(QueueItem)
    \/ Steady(AdvanceCursor)
    \/ Steady(BatchDone)
    \/ Counted(PollClientError)
    \/ Counted(PollOtherError)
    \/ Steady(Wake)

NextBackoff ==
    \/ PollTask
    \/ Steady(CancelPolling)
    \/ \E w \in WorkerIds : Steady(WorkerCancelled(w))
    \/ Steady(StopWorkersDone)

SpecBackoff == InitPoll /\ [][NextBackoff]_vars

\* The event loop runs a task that is ready: a request in flight ends, a
\* sleep returns, a task that is not suspended goes on.
FairSpecBackoff == SpecBackoff /\ WF_vars(PollTask)

\* The connection-error specification: every getUpdates call that fails
\* raises aiohttp.ClientError.
NextConnErrors ==
    \/ Steady(StartPolling)
    \/ Steady(GetUpdates)
    \/ \E b \in BackoffBatches(reqOffset) : Steady(PollOk(b))
    \/ Steady(QueueItem)
    \/ Steady(AdvanceCursor)
    \/ Steady(BatchDone)
    \/ Counted(PollClientError)
    \/ Steady(Wake)

SpecConnErrors == InitPoll /\ [][NextConnErrors]_vars

\* The payloads the dispatch specification hands to _queue_update; n is the
\* identifier of those that carry one.
DispatchPayloads(n) ==
    { Payload("ok", n, "message", "good", TRUE),
      Payload("ok", n, "message", "good", FALSE),
      Payload("ok", n, "callback_query", "good", FALSE),
      Payload("ok", n, "none", "good", FALSE),
      Payload("ok", n, "message", "bad", FALSE),
      Payload("noid", NoId, "message", "good", FALSE),
      Payload("notdict", NoId, "none", "good", FALSE) }

\* The workers are running and the source is at work.
InitDispatch ==
    /\ pollPc = "await"
    /\ offset = 0
    /\ attempt = 0
    /\ retry_delay = InitialRetryDelay
    /\ reqOffset = 0
    /\ batch = << >>
    /\ idx = 1
    /\ slept = 0
    /\ update_queue = << >>
    /\ workers = [w \in WorkerIds |-> [IdleWorker EXCEPT !.pc = "get"]]
    /\ handlers = Registry
    /\ batches = << >>
    /\ dispatched = << >>
    /\ errlog = {}
    /\ queued = 0
    /\ failures = 0
    /\ cancelled = FALSE
    /\ InitExt

\* A step of ingestion or dispatch.
Quiet(A) == A /\ UNCHANGED extVars

NextDispatch ==
    \/ \E p \in DispatchPayloads(queued + 1) : Quiet(Enqueue(p))
    \/ \E w \in WorkerIds : Quiet(WorkerGet(w))
    \/ \E w \in WorkerIds, h \in HandlerIds, b \in BOOLEAN :
          Quiet(HandlerStart(w, h, b))
    \/ \E w \in WorkerIds, h \in HandlerIds : Quiet(HandlerFinish(w, h))
    \/ \E w \in WorkerIds : Quiet(GatherDone(w))
    \/ Quiet(CancelPolling)
    \/ \E w \in WorkerIds : Quiet(WorkerCancelled(w))
    \/ Quiet(StopWorkersDone)

SpecDispatch == InitDispatch /\ [][NextDispatch]_vars

\* The transport specification: tasks make outbound calls while the clock
\* runs.
NextTransport ==
    \/ \E c \in CallerIds : ApiCall(c)
    \/ \E c \in CallerIds : PermitGranted(c)
    \/ \E c \in CallerIds : SleepDone(c)
    \/ \E c \in CallerIds, ok \in BOOLEAN : CallEnd(c, ok)
    \/ \E c \in CallerIds : DirectCall(c)
    \/ \E c \in CallerIds, ok \in BOOLEAN : DirectEnd(c, ok)
    \/ Tick

SpecTransport == InitDispatch /\ [][NextTransport]_vars

\* The webhook specification: setup_webhook has started the workers, the
\* polling task does not exist, and the endpoint is the source of the queue.
InitWebhook ==
    /\ pollPc = "start"
    /\ offset = 0
    /\ attempt = 0
    /\ retry_delay = InitialRetryDelay
    /\ reqOffset = 0
    /\ batch = << >>
    /\ idx = 1
    /\ slept = 0
    /\ update_queue = << >>
    /\ workers = [w \in WorkerIds |-> [IdleWorker EXCEPT !.pc = "get"]]
    /\ handlers = Registry
    /\ batches = << >>
    /\ dispatched = << >>
    /\ errlog = {}
    /\ queued = 0
    /\ failures = 0
    /\ cancelled = FALSE
    /\ InitExt

NextWebhook ==
    \/ \E m \in HttpMethods, p \in Paths, b \in HookBodies(Len(requests) + 1) :
          WebhookRequest(m, p, b)
    \/ \E k \in RequestIds : WebhookBody(k)
    \/ \E w \in WorkerIds : Quiet(WorkerGet(w))
    \/ \E w \in WorkerIds, h \in HandlerIds, b \in BOOLEAN :
          Quiet(HandlerStart(w, h, b))
    \/ \E w \in WorkerIds, h \in HandlerIds : Quiet(HandlerFinish(w, h))
    \/ \E w \in WorkerIds : Quiet(GatherDone(w))

SpecWebhook == InitWebhook /\ [][NextWebhook]_vars

\* The command specification: the dispatch of messages that carry a text to
\* two handlers registered with a command filter.
InitCommand ==
    /\ pollPc = "await"
    /\ offset = 0
    /\ attempt = 0
    /\ retry_delay = InitialRetryDelay
    /\ reqOffset = 0
    /\ batch = << >>
    /\ idx = 1
    /\ slept = 0
    /\ update_queue = << >>
    /\ workers = [w \in WorkerIds |-> [IdleWorker EXCEPT !.pc = "get"]]
    /\ handlers = CommandRegistry
    /\ batches = << >>
    /\ dispatched = << >>
    /\ errlog = {}
    /\ queued = 0
    /\ failures = 0
    /\ cancelled = FALSE
    /\ InitExt

NextCommand ==
    \/ \E p \in CommandPayloads(queued + 1) : Quiet(Enqueue(p))
    \/ \E w \in WorkerIds : Quiet(WorkerGet(w))
    \/ \E w \in WorkerIds, h \in HandlerIds, b \in BOOLEAN :
          Quiet(HandlerStart(w, h, b))
    \/ \E w \in WorkerIds, h \in HandlerIds : Quiet(HandlerFinish(w, h))
    \/ \E w \in WorkerIds : Quiet(GatherDone(w))

SpecCommand == InitCommand /\ [][NextCommand]_vars

\* The filter specification: two filters with any table of values over the
\* sample, and the composed filter called on each update of it.
InitFilters ==
    /\ pollPc = "start"
    /\ offset = 0
    /\ attempt = 0
    /\ retry_delay = InitialRetryDelay
    /\ reqOffset = 0
    /\ batch = << >>
    /\ idx = 1
    /\ slept = 0
    /\ update_queue = << >>
    /\ workers = [w \in WorkerIds |-> IdleWorker]
    /\ handlers = Registry
    /\ batches = << >>
    /\ dispatched = << >>
    /\ errlog = {}
    /\ queued = 0
    /\ failures = 0
    /\ cancelled = FALSE
    /\ now = request_interval
    /\ last_request_time = 0
    /\ rate_limiter = Permits
    /\ calls = [c \in CallerIds |-> IdleCall]
    /\ requests = << >>
    /\ sample \in { [A |-> a, B |-> b, res |-> NoSample.res] :
                       a \in FilterTables, b \in FilterTables }
    /\ token = "token"
    /\ base_url = Url("token")
    /\ worker_count = set_worker_count(NumWorkers)
    /\ worker_tasks = << >>
    /\ initialized = TRUE
    /\ constructed = << ModuleImport >>

NextFilters == \E u \in SampleUpdates : ApplyFilter(u)

SpecFilters == InitFilters /\ [][NextFilters]_vars

\* The configuration specification: a client made without a token, tasks
\* that call initialize and the API, and set_token at any moment.
Tokens == {"token"}

InitToken ==
    /\ pollPc = "start"
    /\ offset = 0
    /\ attempt = 0
    /\ retry_delay = InitialRetryDelay
    /\ reqOffset = 0
    /\ batch = << >>
    /\ idx = 1
    /\ slept = 0
    /\ update_queue = << >>
    /\ workers = [w \in WorkerIds |-> IdleWorker]
    /\ handlers = Registry
    /\ batches = << >>
    /\ dispatched = << >>
    /\ errlog = {}
    /\ queued = 0
    /\ failures = 0
    /\ cancelled = FALSE
    /\ now = request_interval
    /\ last_request_time = 0
    /\ rate_limiter = Permits
    /\ calls = [c \in CallerIds |-> IdleCall]
    /\ requests = << >>
    /\ sample = NoSample
    /\ token = NoToken
    /\ base_url = NoUrl
    /\ worker_count = set_worker_count(NumWorkers)
    /\ worker_tasks = << >>
    /\ initialized = TRUE
    /\ constructed = << ModuleImport >>

NextToken ==
    \/ \E t \in Tokens : SetToken(t)
    \/ \E c \in CallerIds : Initialize(c)
    \/ \E c \in CallerIds : ApiCall(c)
    \/ \E c \in CallerIds : PermitGranted(c)
    \/ \E c \in CallerIds : SleepDone(c)
    \/ \E c \in CallerIds, ok \in BOOLEAN : CallEnd(c, ok)
    \/ \E c \in CallerIds : DirectCall(c)
    \/ \E c \in CallerIds, ok \in BOOLEAN : DirectEnd(c, ok)
    \/ Tick

SpecToken == InitToken /\ [][NextToken]_vars

\* The registration specification: the client starts with no handler, and
\* handlers are registered while updates are put and dispatched.
RegisterRecs ==
    { HandlerRec("message", "none", "ok"),
      HandlerRec("", "none", "raise"),
      HandlerRec("callback_query", "none", "ok") }

RegisterPayloads(n) ==
    { Payload("ok", n, "message", "good", FALSE),
      Payload("ok", n, "callback_query", "good", FALSE) }

InitRegister ==
    /\ pollPc = "await"
    /\ offset = 0
    /\ attempt = 0
    /\ retry_delay = InitialRetryDelay
    /\ reqOffset = 0
    /\ batch = << >>
    /\ idx = 1
    /\ slept = 0
    /\ update_queue = << >>
    /\ workers = [w \in WorkerIds |-> [IdleWorker EXCEPT !.pc = "get"]]
    /\ handlers = << >>
    /\ batches = << >>
    /\ dispatched = << >>
    /\ errlog = {}
    /\ queued = 0
    /\ failures = 0
    /\ cancelled = FALSE
    /\ InitExt

NextRegister ==
    \/ \E rec \in RegisterRecs : Quiet(Register(rec))
    \/ \E p \in RegisterPayloads(queued + 1) : Quiet(Enqueue(p))
    \/ \E w \in WorkerIds : Quiet(WorkerGet(w))
    \/ \E w \in WorkerIds : \E h \in DOMAIN workers[w].hs, b \in BOOLEAN :
          Quiet(HandlerStart(w, h, b))
    \/ \E w \in WorkerIds : \E h \in DOMAIN workers[w].hs :
          Quiet(HandlerFinish(w, h))
    \/ \E w \in WorkerIds : Quiet(GatherDone(w))

SpecRegister == InitRegister /\ [][NextRegister]_vars

\* The composition specification: two filters with any table of values, and
\* the filter A composed and called.
InitCompose ==
    /\ pollPc = "start"
    /\ offset = 0
    /\ attempt = 0
    /\ retry_delay = InitialRetryDelay
    /\ reqOffset = 0
    /\ batch = << >>
    /\ idx = 1
    /\ slept = 0
    /\ update_queue = << >>
    /\ workers = [w \in WorkerIds |-> IdleWorker]
    /\ handlers = Registry
    /\ batches = << >>
    /\ dispatched = << >>
    /\ errlog = {}
    /\ queued = 0
    /\ failures = 0
    /\ cancelled = FALSE
    /\ now = request_interval
    /\ last_request_time = 0
    /\ rate_limiter = Permits
    /\ calls = [c \in CallerIds |-> IdleCall]
    /\ requests = << >>
    /\ sample \in { [A |-> a, B |-> b, expr |-> Leaf("A"),
                      res |-> [u \in SampleUpdates |-> NotCalled]] :
                       a \in FilterTables, b \in FilterTables }
    /\ token = "token"
    /\ base_url = Url("token")
    /\ worker_count = set_worker_count(NumWorkers)
    /\ worker_tasks = << >>
    /\ initialized = TRUE
    /\ constructed = << ModuleImport >>

NextCompose ==
    \/ \E o \in {"and", "or", "not"} : Compose(o)
    \/ \E u \in SampleUpdates : CallComposed(u)

SpecCompose == InitCompose /\ [][NextCompose]_vars

\* The life-cycle specification: start_workers and stop_workers are called
\* one after the other in any order while updates arrive and are dispatched.
LifecyclePayloads(n) == { Payload("ok", n, "message", "good", TRUE) }

InitLifecycle ==
    /\ pollPc = "await"
    /\ offset = 0
    /\ attempt = 0
    /\ retry_delay = InitialRetryDelay
    /\ reqOffset = 0
    /\ batch = << >>
    /\ idx = 1
    /\ slept = 0
    /\ update_queue = << >>
    /\ workers = << >>
    /\ handlers = << HandlerRec("message", "none", "ok") >>
    /\ batches = << >>
    /\ dispatched = << >>
    /\ errlog = {}
    /\ queued = 0
    /\ failures = 0
    /\ cancelled = FALSE
    /\ InitExt

NextLifecycle ==
    \/ StartWorkers
    \/ StopWorkersCancel
    \/ StopWorkersReturn
    \/ \E p \in LifecyclePayloads(queued + 1) : Quiet(Enqueue(p))
    \/ \E w \in DOMAIN workers : Quiet(WorkerGet(w))
    \/ \E w \in DOMAIN workers :
          \E h \in DOMAIN workers[w].hs, b \in BOOLEAN :
             Quiet(HandlerStart(w, h, b))
    \/ \E w \in DOMAIN workers :
          \E h \in DOMAIN workers[w].hs : Quiet(HandlerFinish(w, h))
    \/ \E w \in DOMAIN workers : Quiet(GatherDone(w))
    \/ \E w \in DOMAIN workers : Quiet(WorkerCancelled(w))

SpecLifecycle == InitLifecycle /\ [][NextLifecycle]_vars

\* The single-worker specification: set_worker_count(1), start_workers called
\* once, and the source at work.
InitSingle ==
    /\ pollPc = "await"
    /\ offset = 0
    /\ attempt = 0
    /\ retry_delay = InitialRetryDelay
    /\ reqOffset = 0
    /\ batch = << >>
    /\ idx = 1
    /\ slept = 0
    /\ update_queue = << >>
    /\ worker_count = set_worker_count(1)
    /\ workers = Started(worker_count)
    /\ worker_tasks = [i \in 1 .. worker_count |-> i]
    /\ initialized = TRUE
    /\ constructed = << ModuleImport >>
    /\ handlers = Registry
    /\ batches = << >>
    /\ dispatched = << >>
    /\ errlog = {}
    /\ queued = 0
    /\ failures = 0
    /\ cancelled = FALSE
    /\ now = request_interval
    /\ last_request_time = 0
    /\ rate_limiter = Permits
    /\ calls = [c \in CallerIds |-> IdleCall]
    /\ requests = << >>
    /\ sample = NoSample
    /\ token = "token"
    /\ base_url = Url("token")

NextSingle ==
    \/ \E p \in DispatchPayloads(queued + 1) : Quiet(Enqueue(p))
    \/ \E w \in DOMAIN workers : Quiet(WorkerGet(w))
    \/ \E w \in DOMAIN workers :
          \E h \in DOMAIN workers[w].hs, b \in BOOLEAN :
             Quiet(HandlerStart(w, h, b))
    \/ \E w \in DOMAIN workers :
          \E h \in DOMAIN workers[w].hs : Quiet(HandlerFinish(w, h))
    \/ \E w \in DOMAIN workers : Quiet(GatherDone(w))

SpecSingle == InitSingle /\ [][NextSingle]_vars

\* The construction specification: the package is imported, then the
\* application constructs Client again, with or without a token and a plugins
\* directory, between calls that set the token, register handlers, set the
\* number of workers and put updates on the queue.
ConstructTokens == {NoToken, "token", "other"}

InitConstruct ==
    /\ pollPc = "await"
    /\ offset = 0
    /\ attempt = 0
    /\ retry_delay = InitialRetryDelay
    /\ reqOffset = 0
    /\ batch = << >>
    /\ idx = 1
    /\ slept = 0
    /\ update_queue = << >>
    /\ workers = << >>
    /\ handlers = << >>
    /\ batches = << >>
    /\ dispatched = << >>
    /\ errlog = {}
    /\ queued = 0
    /\ failures = 0
    /\ cancelled = FALSE
    /\ now = request_interval
    /\ last_request_time = 0
    /\ rate_limiter = 0
    /\ calls = [c \in CallerIds |-> IdleCall]
    /\ requests = << >>
    /\ sample = NoSample
    /\ token = NoToken
    /\ base_url = NoUrl
    /\ worker_count = 0
    /\ worker_tasks = << >>
    /\ initialized = FALSE
    /\ constructed = << >>

NextConstruct ==
    \/ ~initialized /\ Construct(ModuleImport.token, ModuleImport.plugins_dir)
    \/ initialized /\ \E t \in ConstructTokens, p \in BOOLEAN : Construct(t, p)
    \/ initialized /\ \E t \in Tokens : SetToken(t)
    \/ initialized /\ \E rec \in RegisterRecs : Quiet(Register(rec))
    \/ initialized /\ \E count \in 0 .. NumWorkers : SetWorkerCount(count)
    \/ initialized /\ \E p \in LifecyclePayloads(queued + 1) : Quiet(Enqueue(p))

SpecConstruct == InitConstruct /\ [][NextConstruct]_vars

\* The kinds specification: handlers are registered for a kind together with
\* a built-in filter, and updates of each kind arrive, with and without the
\* content the filters test.
KindRecs ==
    { HandlerRec("edited_message", "text", "ok"),
      HandlerRec("channel_post", "photo", "ok"),
      HandlerRec("callback_query", "private", "ok"),
      HandlerRec("edited_message", "command_start", "ok"),
      HandlerRec("message", "photo", "ok"),
      HandlerRec("edited_message", "none", "ok") }

KindPayloads(n) ==
    { Payload("ok", n, k, "good", a) :
         k \in {"message", "edited_message", "channel_post", "callback_query"},
         a \in BOOLEAN }

NextKinds ==
    \/ \E rec \in KindRecs : Quiet(Register(rec))
    \/ \E p \in KindPayloads(queued + 1) : Quiet(Enqueue(p))
    \/ \E w \in WorkerIds : Quiet(WorkerGet(w))
    \/ \E w \in WorkerIds :
          \E h \in DOMAIN workers[w].hs, b \in BOOLEAN :
             Quiet(HandlerStart(w, h, b))
    \/ \E w \in WorkerIds :
          \E h \in DOMAIN workers[w].hs : Quiet(HandlerFinish(w, h))
    \/ \E w \in WorkerIds : Quiet(GatherDone(w))

SpecKinds == InitRegister /\ [][NextKinds]_vars

\* The backlog specification: the poller has put a whole answer on the queue
\* (the puts of one batch do not suspend, so no worker runs between them) and
\* the answer holds one update more than there are workers.
Backlog == NumWorkers + 1

BacklogPayloads(n) ==
    { Payload("ok", n, "message", "good", FALSE),
      Payload("ok", n, "none", "good", FALSE) }

InitBacklog ==
    /\ pollPc = "await"
    /\ offset = Backlog + 1
    /\ attempt = 0
    /\ retry_delay = InitialRetryDelay
    /\ reqOffset = Backlog + 1
    /\ batch = << >>
    /\ idx = 1
    /\ slept = 0
    /\ update_queue \in { q \in [1 .. Backlog -> UNION { BacklogPayloads(n) : n \in 1 .. Backlog }] :
                            \A i \in 1 .. Backlog : q[i].update_id = i }
    /\ workers = [w \in WorkerIds |-> [IdleWorker EXCEPT !.pc = "get"]]
    /\ handlers = Registry
    /\ batches = << >>
    /\ dispatched = [i \in 1 .. Backlog |->
           [upd |-> update_queue[i], outcome |-> "queued", invoked |-> {},
            started |-> {}, completed |-> {}, failed |-> {}, taskdone |-> 0,
            worker |-> 0, args |-> {}]]
    /\ errlog = {}
    /\ queued = Backlog
    /\ failures = 0
    /\ cancelled = FALSE
    /\ InitExt

NextBacklog ==
    \/ \E w \in WorkerIds : Quiet(WorkerGet(w))
    \/ \E w \in WorkerIds, h \in HandlerIds, b \in BOOLEAN :
          Quiet(HandlerStart(w, h, b))
    \/ \E w \in WorkerIds, h \in HandlerIds : Quiet(HandlerFinish(w, h))
    \/ \E w \in WorkerIds : Quiet(GatherDone(w))

SpecBacklog == InitBacklog /\ [][NextBacklog]_vars

\* ------------------------------------------------------------ the cursor

Range(s) == { s[i] : i \in 1 .. Len(s) }

RECURSIVE MaxOf(_)
MaxOf(S) == LET x == CHOOSE y \in S : TRUE
            IN  IF S = {x} THEN x
                ELSE LET m == MaxOf(S \ {x}) IN IF x > m THEN x ELSE m

\* The last logged answer is the one being iterated over.
InBatch == pollPc \in {"iterate", "advance"} /\ batch # << >>

\* The number of items of the k-th logged answer the loop has been through:
\* up to the item whose identifier made int() raise, up to the position of
\* the loop in the answer being iterated over, all of them otherwise.
VisitedLen(k) ==
    IF \E e \in errlog : e.what = "Error while polling" /\ e.at = k
    THEN (CHOOSE e \in errlog : e.what = "Error while polling" /\ e.at = k).pos
    ELSE IF k = Len(batches) /\ InBatch
    THEN (IF pollPc = "advance" THEN idx ELSE idx - 1)
    ELSE Len(batches[k].items)

RECURSIVE VisitedUpTo(_)
VisitedUpTo(k) ==
    IF k = 0 THEN << >>
    ELSE VisitedUpTo(k - 1) \o SubSeq(batches[k].items, 1, VisitedLen(k))

Visited == VisitedUpTo(Len(batches))

\* C1: while a batch is iterated over, the cursor is not above the
\* update_id of any valid update of the batch that is not on the queue yet:
\* the cursor passes an update only after its put.
C1_CursorOnlyAfterPut ==
    InBatch =>
        \A i \in 1 .. Len(batch) :
            (batch[i].form = "ok" /\ batch[i] \notin Range(update_queue))
                => offset <= batch[i].update_id

\* The first update of a batch of two is on the queue and the cursor is
\* past it, the second is still to be put.
C1_Witness ==
    /\ pollPc = "iterate" /\ idx = 2 /\ Len(batch) = 2
    /\ batch[1].form = "ok" /\ batch[2].form = "ok"
    /\ batch[1] \in Range(update_queue)
    /\ batch[2] \notin Range(update_queue)
    /\ offset = batch[1].update_id + 1

\* C2: between the put of an update and the assignment that follows it
\* excepted, the cursor is max(update_id) + 1 over the updates with an
\* integer update_id put on the queue, and 0 while there is none; a failed
\* call and a dropped item leave it there.
C2_CursorIsMaxPlusOne ==
    pollPc # "advance" =>
        offset = IF OkIds(update_queue) = << >> THEN 0
                 ELSE MaxOf(Range(OkIds(update_queue))) + 1

\* Two answers and a failed call later the cursor stands past three updates.
C2_Witness ==
    /\ pollPc = "request"
    /\ Len(batches) >= 2
    /\ failures >= 1
    /\ Len(OkIds(update_queue)) = 3
    /\ offset = MaxId + 1

\* C3: the queue holds exactly the items, of the answers in the order of
\* the polls, that the loop has been through and that pass the test, in the
\* order of the answers.
C3_QueueKeepsBatchOrder ==
    update_queue = SelectSeq(Visited, PassesCheck)

\* Two answers, the first of two updates, are on the queue in order.
C3_Witness ==
    /\ pollPc = "request"
    /\ Len(batches) = 2
    /\ Len(batches[1].items) = 2
    /\ Len(update_queue) = 3
    /\ \A i \in 1 .. 3 : update_queue[i].form = "ok"

\* The scenario of C4: the first two answers are [5, 6] and [7].
C4_Scenario ==
    /\ Len(batches) >= 2
    /\ batches[1].items = << OkItem(5), OkItem(6) >>
    /\ batches[2].items = << OkItem(7) >>

\* C4: after the answers [5, 6] and [7] the second request has carried
\* offset 7 and, once the second answer is through, the queue holds 5, 6
\* and 7, each once.
C4_TwoBatches ==
    C4_Scenario =>
        /\ batches[2].offset = 7
        /\ (Len(batches) = 2 /\ ~InBatch)
               => update_queue = << OkItem(5), OkItem(6), OkItem(7) >>

\* The scenario has run to its end.
C4_Witness ==
    /\ C4_Scenario
    /\ Len(batches) = 2
    /\ pollPc = "await"
    /\ reqOffset = 8
    /\ Len(update_queue) = 3

\* C5 (as claimed): no item without a well-formed update_id is put on the
\* queue, and, once an answer is through, each of its valid items is on
\* the queue exactly once.
C5_MalformedDropped ==
    /\ \A i \in 1 .. Len(update_queue) : update_queue[i].form = "ok"
    /\ ~InBatch =>
          \A u \in Range(Flatten(batches)) :
              u.form = "ok" =>
                  Cardinality({ i \in 1 .. Len(update_queue) : update_queue[i] = u }) = 1

\* C6: the polling loop is left only by a cancellation, and after a failed
\* call (the task sleeps) another request is issued unless the task is
\* cancelled first.
C6_PollingGoesOn ==
    /\ [](pollPc \in {"stopping", "done"} => cancelled)
    /\ [](pollPc \in {"sleep_retry", "sleep_final", "sleep_generic"}
             => <>(pollPc = "await" \/ cancelled))

\* A request is in flight after a generic failure followed by a connection
\* error.
C6_Witness ==
    /\ pollPc = "await"
    /\ ~cancelled
    /\ failures = 2
    /\ attempt = 2
    /\ retry_delay = Backoff(InitialRetryDelay)
    /\ slept = BackoffPow(retry_delay, 1)

\* ---------------------------------------------------------------- dispatch

Slots == 1 .. Len(dispatched)

\* C7: when an update whose handlers were run is marked done, every matched
\* handler whose callback returns has completed, every matched handler
\* whose callback raises has been logged by Handler.handle, and nothing was
\* raised to process_update or the worker (no "Error processing update");
\* while the worker waits in gather no handler task is cancelled.
C7_FailureIsIsolated ==
    /\ \A s \in Slots :
          (dispatched[s].outcome = "gather" /\ dispatched[s].taskdone >= 1) =>
              /\ \A h \in dispatched[s].invoked :
                    IF handlers[h].callback = "ok"
                    THEN h \in dispatched[s].completed
                    ELSE /\ h \in dispatched[s].failed
                         /\ Log("Error in handler", s, h) \in errlog
              /\ Log("Error processing update", s, 0) \notin errlog
    /\ \A w \in WorkerIds :
          workers[w].pc = "gather" =>
              \A h \in DOMAIN workers[w].hs : workers[w].hs[h] # "cancelled"

\* An update is done whose first handler raised and whose third returned.
C7_Witness ==
    \E s \in Slots :
        /\ dispatched[s].taskdone = 1
        /\ 1 \in dispatched[s].failed
        /\ 3 \in dispatched[s].completed

\* C8: a worker task has ended only if it was cancelled; a payload that
\* does not parse, a check that raises and a callback that raises are each
\* logged, and the worker that met a parse or match failure is back in its
\* loop (waiting for, or working on, another update).
C8_WorkerSurvives ==
    /\ \A w \in WorkerIds :
          /\ workers[w].pc \in {"get", "gather", "ended"}
          /\ workers[w].pc = "ended" => workers[w].cancel
    /\ \A s \in Slots :
          /\ dispatched[s].outcome = "parse_error"
                => Log("Error in update worker", s, 0) \in errlog
          /\ dispatched[s].outcome = "match_error"
                => Log("Error processing update", s, 0) \in errlog
          /\ \A h \in dispatched[s].failed : Log("Error in handler", s, h) \in errlog
          /\ dispatched[s].outcome \in {"parse_error", "match_error"}
                => workers[dispatched[s].worker].slot # s

\* One worker has met a payload that does not parse, then an update whose
\* handler raised, and waits for the next update.
C8_Witness ==
    \E w \in WorkerIds :
        /\ Len(dispatched) = 2
        /\ dispatched[1].worker = w /\ dispatched[2].worker = w
        /\ dispatched[1].outcome = "parse_error"
        /\ dispatched[2].failed # {}
        /\ dispatched[2].taskdone = 1
        /\ workers[w].pc = "get" /\ ~workers[w].cancel

\* A handler of the update worker w works on has raised the skip signal.
StopRaised(w) ==
    \E g \in DOMAIN workers[w].hs :
        handlers[g].callback = "stop" /\ workers[w].hs[g] = "failed"

\* C9 (as claimed): once a handler has raised the skip signal for an update,
\* no handler of that update that has not started yet is started.
C9_SkipRemaining ==
    [][\A w \in WorkerIds : \A h \in DOMAIN workers[w].hs :
          (workers[w].pc = "gather" /\ StopRaised(w) /\ workers[w].hs[h] = "pending"
              /\ workers'[w].pc = "gather" /\ workers'[w].slot = workers[w].slot)
            => workers'[w].hs[h] = "pending"]_vars

\* What the claim requires of record h and update u.
KindFits(h, u) == h.update_type = "" \/ (u.isUpdate /\ u.kind = h.update_type)
PredicateFits(h, u) == h.filters = "none" \/ EvalFilter(h.filters, u) = "true"

\* C10 (as claimed): for every update handed to process_update, the records
\* invoked are exactly those whose kind is unset or the update's and whose
\* predicate is absent or true.
C10_InvokedIffMatches ==
    \A s \in Slots :
        dispatched[s].outcome \in {"match_error", "no_match", "gather"} =>
            dispatched[s].invoked =
                { h \in HandlerIds :
                    /\ KindFits(handlers[h], FromDict(dispatched[s].upd))
                    /\ PredicateFits(handlers[h], FromDict(dispatched[s].upd)) }

\* C11: while a matched handler of an update has not started, one of them
\* can start whatever the handlers already started are doing (none waits for
\* another to end); an update handed to its handlers is marked done only
\* once every one of them has ended, and until then its worker is still on
\* it (it has pulled no other update).
C11_ConcurrentThenDone ==
    /\ \A w \in WorkerIds :
          (workers[w].pc = "gather"
              /\ \E h \in DOMAIN workers[w].hs : workers[w].hs[h] = "pending")
            => \E h \in DOMAIN workers[w].hs :
                   ENABLED Quiet(HandlerStart(w, h, TRUE))
    /\ \A s \in Slots :
          dispatched[s].outcome = "gather" =>
              /\ dispatched[s].taskdone <= 1
              /\ dispatched[s].taskdone = 1 =>
                    dispatched[s].invoked =
                        dispatched[s].completed \cup dispatched[s].failed
              /\ dispatched[s].taskdone = 0 =>
                    /\ workers[dispatched[s].worker].slot = s
                    /\ workers[dispatched[s].worker].pc \in {"gather", "ended"}

\* Two handlers of one update are suspended at the same time and a third
\* has not started yet.
C11_Witness ==
    \E w \in WorkerIds :
        /\ workers[w].pc = "gather"
        /\ workers[w].hs[1] = "running"
        /\ workers[w].hs[2] = "running"
        /\ workers[w].hs[3] = "pending"
        /\ dispatched[workers[w].slot].taskdone = 0

\* ---------------------------------------------------------------- transport

Limited == { c \in CallerIds : calls[c].via = "limited" }
\* The tasks that hold a permit, and those whose request is out.
Holders == { c \in Limited : calls[c].pc \in {"sleeping", "inflight"} }
InFlight == { c \in Limited : calls[c].pc = "inflight" }

\* C12 (as claimed): every request that has gone out went through the rate
\* limiter.
C12_EveryCallLimited ==
    \A c \in CallerIds : calls[c].sent # NoTime => calls[c].via = "limited"

\* C13 (as claimed): any two requests sent through the rate limiter are at
\* least request_interval apart.
C13_MinimumSpacing ==
    \A c, d \in Limited :
        (c # d /\ calls[c].sent # NoTime /\ calls[d].sent # NoTime
               /\ calls[c].sent <= calls[d].sent)
          => calls[d].sent - calls[c].sent >= request_interval

\* C14: at most Permits requests of the rate limiter are out at once, and
\* the free permits are Permits less the tasks between the acquisition and
\* the end of their request, whether it returned or raised: all of them are
\* free when no call is under way.
C14_PermitsBounded ==
    /\ Cardinality(InFlight) <= Permits
    /\ rate_limiter >= 0
    /\ rate_limiter = Permits - Cardinality(Holders)
    /\ Holders = {} => rate_limiter = Permits

\* A request has raised and every permit, its own included, is held by
\* another task.
C14_Witness ==
    /\ \E c \in Limited : calls[c].pc = "failed"
    /\ Cardinality(Holders) = Permits
    /\ rate_limiter = 0

\* C15: while a handler of an update is suspended, a worker that waits for
\* an update and is not cancelled takes the head of a non-empty queue.
C15_OthersKeepDispatching ==
    \A w \in WorkerIds :
        ( /\ workers[w].pc = "get"
          /\ ~workers[w].cancel
          /\ update_queue # << >>
          /\ \E v \in WorkerIds \ {w} :
                /\ workers[v].pc = "gather"
                /\ \E h \in DOMAIN workers[v].hs : workers[v].hs[h] = "running" )
          => ENABLED Quiet(WorkerGet(w))

\* The first update is still with its suspended handler and the second,
\* enqueued after it, has been dispatched and marked done by another worker.
C15_Witness ==
    /\ Len(dispatched) = 2
    /\ dispatched[1].outcome = "gather" /\ dispatched[1].taskdone = 0
    /\ \E h \in HandlerIds : workers[dispatched[1].worker].hs[h] = "running"
    /\ dispatched[2].outcome = "gather" /\ dispatched[2].taskdone = 1
    /\ dispatched[2].completed # {}
    /\ dispatched[2].worker # dispatched[1].worker

\* ----------------------------------------------------------------- commands

\* C16 (as claimed): an update whose message text is /start, once a worker
\* has taken it, has invoked the handler registered for /start and not the
\* one registered for /help.
C16_StartInvoked ==
    \A s \in Slots :
        ( /\ dispatched[s].outcome # "queued"
          /\ TextOf(dispatched[s].upd) = << "/", "s", "t", "a", "r", "t" >> )
          => /\ 1 \in dispatched[s].invoked
             /\ 2 \notin dispatched[s].invoked

\* ------------------------------------------------------------------ filters

\* C17: the value A & ~B returns for an update is true exactly when the
\* value of A is true and the value of B is not.
C17_AndNot ==
    \A u \in SampleUpdates :
        sample.res[u] # "unset" =>
            (Truthy(sample.res[u])
                <=> (Truthy(sample.A[u]) /\ ~Truthy(sample.B[u])))

\* The composed filter has matched an update for which A returns a text
\* and B returns None, and has not matched one for which both return a
\* text.
C17_Witness ==
    \E u, v \in SampleUpdates :
        /\ sample.A[u] = "'x'" /\ sample.B[u] = "None"
        /\ sample.res[u] = "True"
        /\ sample.A[v] = "'x'" /\ sample.B[v] = "'x'"
        /\ sample.res[v] = "False"

\* ------------------------------------------------------------------ webhook

\* C18: a request that has been answered got 405 when it is no POST, 404
\* when it is a POST to another path, 500 when its body does not parse and
\* 200 otherwise, and a request answered 200 has its body on record as an
\* enqueued update.
C18_WebhookStatus ==
    \A k \in RequestIds :
        IF requests[k].pc = "answered"
        THEN /\ requests[k].status =
                    IF requests[k].method # "POST" THEN 405
                    ELSE IF requests[k].path # webhook_path THEN 404
                    ELSE IF ~requests[k].body.json THEN 500
                    ELSE 200
             /\ requests[k].status = 200 =>
                    /\ requests[k].slot \in Slots
                    /\ dispatched[requests[k].slot].upd = requests[k].body.value
        ELSE requests[k].status = 0

\* A GET to another path has been answered 405, and a POST to the path with
\* a body that parses 200.
C18_Witness ==
    \E k, j \in RequestIds :
        /\ requests[k].method = "GET" /\ requests[k].path = "/other"
        /\ requests[k].status = 405
        /\ requests[j].status = 200

\* The requests answered by the step.
AnsweredNow ==
    { k \in 1 .. Len(requests') :
        /\ requests'[k].pc = "answered"
        /\ (k \in RequestIds => requests[k].pc # "answered") }

\* C19: the step that answers a request with 200 appends its body to the
\* queue and nothing else, and the step that answers with another status
\* leaves the queue as it is.
C19_QueueFrame ==
    [][\A k \in AnsweredNow :
          IF requests'[k].status = 200
          THEN update_queue' = Append(update_queue, requests'[k].body.value)
          ELSE update_queue' = update_queue]_vars

\* A POST to another path has been answered 404 with nothing enqueued, and
\* a later POST to the path has put one update on the queue.
C19_Witness ==
    /\ Len(requests) = 2
    /\ requests[1].method = "POST" /\ requests[1].path = "/other"
    /\ requests[1].status = 404
    /\ requests[2].status = 200
    /\ queued = 1

\* C20: at the step that answers 200 the update is the last of the queue
\* and no worker has taken it (none of its handlers has started), and the
\* answer to a request whose body has been read is never held back.
C20_AnswerBeforeDispatch ==
    /\ [][\A k \in AnsweredNow :
             requests'[k].status = 200 =>
                 /\ update_queue' # << >>
                 /\ update_queue'[Len(update_queue')] = requests'[k].body.value
                 /\ requests'[k].slot = Len(dispatched')
                 /\ dispatched'[requests'[k].slot].outcome = "queued"
                 /\ dispatched'[requests'[k].slot].started = {}]_vars
    /\ [](\A k \in RequestIds :
             requests[k].pc # "answered" => ENABLED WebhookBody(k))

\* A request has been answered 200 while its update waits on the queue
\* behind an update whose handler is suspended.
C20_Witness ==
    /\ Len(requests) = 2
    /\ requests[2].status = 200
    /\ requests[2].slot = 2
    /\ dispatched[2].outcome = "queued"
    /\ dispatched[1].outcome = "gather" /\ dispatched[1].taskdone = 0
    /\ \E h \in HandlerIds : workers[dispatched[1].worker].hs[h] = "running"

\* A body the endpoint can make an update of: it is JSON, a dict, and
\* Update.from_dict accepts it.
WellFormed(b) == b.json /\ IsDict(b.value) /\ ~ParseFails(b.value)

\* C21: a POST to the webhook path whose body is no well-formed update (it
\* is no JSON, or it lacks a required field such as update_id) is answered
\* with no success status and is not put on the queue, and no worker ends
\* because of it.
C21_MalformedRefused ==
    /\ \A k \in RequestIds :
          /\ requests[k].pc = "answered"
          /\ requests[k].method = "POST"
          /\ requests[k].path = webhook_path
          /\ ~WellFormed(requests[k].body)
          => requests[k].status # 200 /\ requests[k].slot = 0
    /\ \A w \in WorkerIds : workers[w].pc # "ended"

\* ------------------------------------------------------------- cancellation

\* The tasks the client started that have not ended: the workers and the
\* handler tasks of their gathers.
RunningTasks ==
    { << w, 0 >> : w \in { v \in WorkerIds : workers[v].pc \in {"get", "gather"} } }
    \cup { t \in WorkerIds \X HandlerIds :
              /\ t[2] \in DOMAIN workers[t[1]].hs
              /\ workers[t[1]].hs[t[2]] \in {"pending", "running"} }

InHand ==
    { s \in Slots : /\ dispatched[s].outcome = "gather"
                    /\ dispatched[s].invoked #
                          dispatched[s].completed \cup dispatched[s].failed }

Unmatched ==
    { s \in Slots :
        /\ dispatched[s].outcome # "queued"
        /\ ~ParseFails(dispatched[s].upd)
        /\ ~MatchRaises(FromDict(dispatched[s].upd))
        /\ Matched(FromDict(dispatched[s].upd)) = {} }

\* C24: for an update no handler matches no callback is invoked and nothing
\* is logged, the update is marked done once, and the worker that took it is
\* back at queue.get(): it takes the next update as soon as there is one.
C24_NoMatchIsQuiet ==
    \A s \in Unmatched :
        /\ dispatched[s].outcome = "no_match"
        /\ dispatched[s].invoked = {} /\ dispatched[s].started = {}
        /\ dispatched[s].taskdone = 1
        /\ \A e \in errlog : e.at # s
        /\ workers[dispatched[s].worker].slot # s
        /\ (workers[dispatched[s].worker].pc = "get" /\ update_queue # << >>)
              => ENABLED Quiet(WorkerGet(dispatched[s].worker))

\* A worker took an update no handler matches and then the next update.
C24_Witness ==
    \E s \in Unmatched : \E t \in Slots :
        /\ t > s
        /\ dispatched[t].worker = dispatched[s].worker
        /\ dispatched[t].outcome = "gather"

\* ------------------------------------------------------- callback arguments

\* C25: a callback registered for a kind is called with the client and with
\* the payload the update holds under that kind, never with the update
\* itself or with nothing; a callback registered without a kind is called
\* with the client and the update.  Every callback that started was called
\* so.
C25_CallbackArgument ==
    \A s \in Slots :
        /\ \A h \in dispatched[s].started :
              \E c \in dispatched[s].args : c.handler = h
        /\ \A c \in dispatched[s].args :
              /\ c.bot = "client"
              /\ c.arg.update_id = dispatched[s].upd.update_id
              /\ IF handlers[c.handler].update_type # ""
                 THEN /\ c.arg.what = "payload"
                      /\ c.arg.kind = handlers[c.handler].update_type
                      /\ c.arg.kind = dispatched[s].upd.kind
                 ELSE c.arg.what = "envelope"

\* For one update a callback registered for messages was given the message
\* and a callback registered without a kind the update.
C25_Witness ==
    \E s \in Slots : \E c, d \in dispatched[s].args :
        /\ handlers[c.handler].update_type = "message" /\ c.arg.what = "payload"
        /\ handlers[d.handler].update_type = "" /\ d.arg.what = "envelope"

\* ------------------------------------------------------------ failed calls

\* C26: a request the remote API answers with a failure is raised to the
\* caller of the call, and the transport does not send it again: a call
\* that raised has sent one request, a request that is out ends the call,
\* and a call that has raised stays as it is.
C26_FailureRaisedOnce ==
    /\ [](\A c \in CallerIds :
             calls[c].error = "Exception"
                => calls[c].pc = "failed" /\ calls[c].tries = 1)
    /\ [][\A c \in CallerIds :
             calls[c].pc = "inflight" /\ calls'[c] # calls[c]
                => /\ calls'[c].pc \in {"done", "failed"}
                   /\ calls'[c].pc = "failed" => calls'[c].error = "Exception"
                   /\ calls'[c].tries = calls[c].tries
                   /\ calls'[c].sent = calls[c].sent]_vars
    /\ [][\A c \in CallerIds :
             calls[c].pc = "failed" => calls'[c] = calls[c]]_vars

\* A call through the rate limiter and a direct call have both raised the
\* failure the remote API answered.
C26_Witness ==
    \E c, d \in CallerIds :
        /\ calls[c].via = "limited" /\ calls[c].error = "Exception"
        /\ calls[d].via = "direct" /\ calls[d].error = "Exception"
        /\ calls[c].tries = 1 /\ calls[d].tries = 1

\* ------------------------------------------------------------ configuration

C28_SleepCapped ==
    pollPc \in {"sleep_retry", "sleep_final", "sleep_generic"}
        => slept <= MaxRetryDelay

\* C29: in a run of consecutive connection errors (the attempt before this
\* one failed too: the retry loop is past its first turn, or the base delay
\* is above its initial value) the delay slept is never below the delay
\* slept before it, and a poll that succeeds puts the base delay back to its
\* initial 5 seconds.
C29_BackoffGrows ==
    /\ [][(/\ pollPc = "await"
           /\ pollPc' \in {"sleep_retry", "sleep_final"}
           /\ (attempt >= 1 \/ retry_delay > InitialRetryDelay))
              => slept' >= slept]_vars
    /\ [][(pollPc = "iterate" /\ pollPc' = "request")
              => retry_delay' = InitialRetryDelay]_vars

\* C30: a getUpdates request that fails leaves the cursor as it is, through
\* the sleep that follows as well, and the next request is sent with the
\* cursor, which is the offset the failed request carried; the cursor
\* changes in no step but the poller's assignment after a put.
C30_FailedPollKeepsCursor ==
    /\ [][(/\ pollPc = "await"
           /\ pollPc' \in {"sleep_retry", "sleep_final", "sleep_generic"})
              => offset' = offset /\ offset = reqOffset]_vars
    /\ [][(pollPc \in {"sleep_retry", "sleep_final", "sleep_generic"})
              => offset' = offset]_vars
    /\ [][(pollPc = "request" /\ pollPc' = "await") => reqOffset' = offset]_vars
    /\ [][(offset' # offset) => pollPc = "advance"]_vars

\* After updates were received a request failed, and the request that
\* follows it is out with the same offset.
C30_Witness ==
    /\ pollPc = "await"
    /\ attempt >= 1 /\ failures >= 1
    /\ \A e \in errlog : e.what # "Error while polling"
    /\ offset > 0 /\ reqOffset = offset

\* ------------------------------------------------------------- registration

\* C31: a step that changes the registry appends one record at its end and
\* leaves every record already stored where and as it was.
C31_RegistryOnlyGrows ==
    [][(handlers' # handlers)
          => /\ Len(handlers') = Len(handlers) + 1
             /\ \A i \in 1 .. Len(handlers) : handlers'[i] = handlers[i]]_vars

\* Two different records were registered, the second after an update had
\* been handed to the first.
C31_Witness ==
    /\ Len(handlers) = MaxHandlers
    /\ handlers[1] # handlers[MaxHandlers]
    /\ \E s \in Slots :
          /\ dispatched[s].invoked = {1}
          /\ dispatched[s].completed \cup dispatched[s].failed = {1}

\* The records of the registry, as it stands, that let update u through.
LetThrough(u) ==
    IF \E h \in 1 .. Len(handlers) : Check(handlers[h], u) = "raise" THEN {}
    ELSE { h \in 1 .. Len(handlers) : Check(handlers[h], u) = "true" }

\* C32: the step in which a worker matches an update leaves the registry
\* alone and hands the update to exactly the records of the registry as it
\* stands, each once, whenever they were registered; a registration made
\* afterwards changes nothing for an update already matched.
C32_MatchSeesWholeRegistry ==
    /\ [][\A s \in Slots :
             (dispatched[s].outcome = "queued" /\ dispatched'[s].outcome # "queued")
                => /\ handlers' = handlers
                   /\ dispatched'[s].invoked = LetThrough(FromDict(dispatched[s].upd))
                   /\ \A w \in WorkerIds :
                         workers'[w].slot = s
                            => /\ DOMAIN workers'[w].hs = 1 .. Len(handlers)
                               /\ \A h \in 1 .. Len(handlers) :
                                     workers'[w].hs[h] = "pending"
                                        <=> h \in dispatched'[s].invoked]_vars
    /\ [][\A s \in Slots :
             dispatched[s].outcome # "queued"
                => dispatched'[s].invoked = dispatched[s].invoked]_vars

\* An update was matched before a record that lets it through was
\* registered, and a later update was handed to that record.
C32_Witness ==
    \E s, t \in Slots :
        /\ s < t
        /\ Len(handlers) >= 1
        /\ dispatched[s].outcome # "queued"
        /\ Len(handlers) \notin dispatched[s].invoked
        /\ Check(handlers[Len(handlers)], FromDict(dispatched[s].upd)) = "true"
        /\ Len(handlers) \in dispatched[t].invoked

\* -------------------------------------------------------------- composition

\* C33: a composition yields a Filter that has not called its operands; a
\* call of A & B returns what A returned without calling B when that is
\* false, and what B returned otherwise; a call of A | B returns what A
\* returned without calling B when that is true, and what B returned
\* otherwise (A and B being the operands, composed or not).
C33_LazyShortCircuit ==
    /\ [][(sample'.expr # sample.expr)
             => /\ sample'.expr.type = "Filter"
                /\ \A u \in SampleUpdates : sample'.res[u] = NotCalled]_vars
    /\ [](\A u \in SampleUpdates :
             (sample.res[u] # NotCalled /\ sample.expr.op \in {"and", "or"})
                => LET a == CallFilter(sample.expr.l, u)
                       b == CallFilter(sample.expr.r, u)
                       first == (sample.expr.op = "and") # Truthy(a.val)
                   IN  IF first
                       THEN sample.res[u] = a
                       ELSE sample.res[u] = [val |-> b.val, seen |-> a.seen \o b.seen])

\* (A | B) & B was called on an update for which A | B is false: B was
\* called once, by the inner composition, and not by the outer one.
C33_Witness ==
    /\ sample.expr.op = "and"
    /\ sample.expr.l.op = "or"
    /\ \E u \in SampleUpdates :
          /\ sample.res[u].seen = << "A", "B" >>
          /\ ~Truthy(sample.res[u].val)

\* --------------------------------------------------------------- task_done

\* C34: no update is marked done twice, and whenever the queue is empty and
\* every worker waits in queue.get(), every update that was put on the queue
\* has been marked done once (the queue counts no unfinished update).
C34_TaskDoneOnce ==
    /\ \A s \in Slots : dispatched[s].taskdone <= 1
    /\ (update_queue = << >> /\ \A w \in WorkerIds : workers[w].pc = "get")
          => \A s \in Slots : dispatched[s].taskdone = 1

\* -------------------------------------------------------------- life cycle

\* C35: the worker tasks running are never more than worker_count, and
\* when stop_workers has returned (the list of the client is empty) no
\* worker task the client created is running.
C35_StopLeavesNoWorker ==
    /\ Cardinality(RunningWorkers) <= worker_count
    /\ worker_tasks = << >> => RunningWorkers = {}

\* ------------------------------------------------------ raising predicates

\* C36: when the predicate of a handler has raised while an update was
\* matched, the handlers whose kind and predicate match that update have
\* been invoked for it all the same.
C36_RaisingPredicateIsolated ==
    \A s \in Slots :
       dispatched[s].outcome = "match_error"
          => { h \in HandlerIds :
                  Check(handlers[h], FromDict(dispatched[s].upd)) = "true" }
                \subseteq dispatched[s].invoked

\* ----------------------------------------------------------- exactly once

\* C37: no two workers hold the same update, and once an update has been
\* marked done with no cancellation, every handler record matching it has
\* been invoked for it, once, and no other.
C37_EachUpdateOnce ==
    /\ \A v \in WorkerIds, w \in WorkerIds :
          (v # w /\ workers[v].slot # 0) => workers[v].slot # workers[w].slot
    /\ \A s \in Slots :
          (dispatched[s].taskdone >= 1 /\ ~cancelled)
             => /\ dispatched[s].started =
                      { h \in HandlerIds :
                           Check(handlers[h], FromDict(dispatched[s].upd)) = "true" }
                /\ Cardinality(dispatched[s].args) = Cardinality(dispatched[s].started)

\* ------------------------------------------------------------ single worker

\* The worker is through with the update of slot s: it could not be parsed,
\* its matching raised or matched nothing, or every handler invoked for it
\* has ended.
Through(s) ==
    \/ dispatched[s].outcome \in {"parse_error", "match_error", "no_match"}
    \/ /\ dispatched[s].outcome = "gather"
       /\ dispatched[s].invoked = dispatched[s].completed \cup dispatched[s].failed

C39_OneInstance ==
    /\ [](\A i \in DOMAIN constructed :
             constructed[i].instance = constructed[1].instance)
    /\ [][(constructed' # constructed /\ constructed # << >>)
             => /\ token' = token
                /\ base_url' = base_url
                /\ handlers' = handlers
                /\ update_queue' = update_queue
                /\ worker_tasks' = worker_tasks
                /\ worker_count' = worker_count
                /\ last_request_time' = last_request_time
                /\ rate_limiter' = rate_limiter]_vars

\* The client has a token, a handler, an update queued and a worker count of
\* its own, and the last construction was given another token and a plugins
\* directory.
C39_Witness ==
    /\ Len(constructed) >= 2
    /\ constructed[Len(constructed)].plugins_dir
    /\ constructed[Len(constructed)].token = "other"
    /\ token = "token"
    /\ handlers = << HandlerRec("callback_query", "none", "ok") >>
    /\ update_queue # << >>
    /\ worker_count = 1

\* -------------------------------------------------------------------- kinds

\* The built-in filters on the content of a message.
MessageFilters == ContentFilters \cup {"text", "command_start", "command_help"}

\* C40: a built-in filter on the content of a message is false on every
\* update whose message field is empty, and a handler registered for
\* another kind together with such a filter is invoked for no update.
C40_MessageFiltersNeedMessage ==
    /\ \A s \in Slots, f \in MessageFilters :
          LET u == FromDict(dispatched[s].upd)
          IN  (u.isUpdate /\ u.kind # "message") => EvalFilter(f, u) = "false"
    /\ \A s \in Slots, h \in HandlerIds :
          (handlers[h].update_type \notin {"", "message"}
              /\ handlers[h].filters \in MessageFilters)
             => h \notin dispatched[s].invoked \cup dispatched[s].started

\* A handler for edited_message with text() is registered and an
\* edited_message with a text has been dispatched: nothing matched it.
C40_Witness ==
    /\ Len(handlers) >= 1
    /\ handlers[1] = HandlerRec("edited_message", "text", "ok")
    /\ \E s \in Slots :
          /\ dispatched[s].upd.kind = "edited_message"
          /\ dispatched[s].upd.attr
          /\ dispatched[s].outcome = "no_match"

====
